---- MODULE Spec2Model ----
(***************************************************************************)
(* Model of the CDDL schema interpreter for JSON values                    *)
(* (src/src/validation/json/mod.rs, src/src/validation/mod.rs) and of the  *)
(* helper functions of src/src/validator/mod.rs.                           *)
(*                                                                         *)
(* The interpreter is a pure tree walk over an immutable AST and an        *)
(* immutable JSON value.  Each validator method is an operator computed    *)
(* the way the code computes it; the state machine is a caller that picks  *)
(* a rule list and arguments from bounded sets, invokes one entry point    *)
(* and records what it returned.                                           *)
(*                                                                         *)
(* Encoding.                                                               *)
(*   JSON value   record tagged by k (serde_json::Value); a number keeps   *)
(*                serde_json's representation n in PosInt/NegInt/Float and *)
(*                its numeric value doubled in x2, so that halves are      *)
(*                exact (1.5 is x2 = 3, the integer 3 is x2 = 6).          *)
(*   Type2        record tagged by t2; Type1 is [type2, operator]; a Type  *)
(*                is the sequence of its type choices.                     *)
(*   Result       "Ok", or the Error variant that is returned: "Target"    *)
(*                (JSONError), "Syntax", "Occurrence", "MultiError".       *)
(*                "Overflow" stands for the process running out of stack   *)
(*                and "Panic" for unimplemented!(): neither is a returned  *)
(*                value.                                                   *)
(* The expected_memberkey / actual_memberkey arguments only feed error     *)
(* messages and are left out.  Casts between isize/usize/i64/u64 are the   *)
(* identity on the numbers within the bounds used here.                    *)
(***************************************************************************)
EXTENDS Integers, Sequences, FiniteSets, TLC

\* ---------------------------------------------------------------- bounds
\* largest magnitude of a numeric literal in a generated range bound
MaxLit == 2
\* largest magnitude of a generated JSON integer
MaxNum == 3
\* rule-reference nesting after which the stack is taken to be exhausted
MaxDepth == 3
\* largest number of type choices of a generated Type
MaxChoices == 2
\* largest number of rules of a generated document
MaxRules == 3
\* the number of bits the 64-bit integers i64 and u64 are scaled down to
IntBits == 4
\* longest array handed to the helpers of the validator module
MaxLen == 3
\* longest pattern handed to format_regex, in chars
MaxPat == 4
\* largest number of entries of a group choice handed to entry_counts_from_group_choice
MaxEntries == 3

\* ------------------------------------------------------------ JSON values
JNull == [k |-> "Null"]
JBool(b) == [k |-> "Bool", b |-> b]
JInt(i) == [k |-> "Number", n |-> IF i < 0 THEN "NegInt" ELSE "PosInt", x2 |-> 2 * i]
JFloat(h) == [k |-> "Number", n |-> "Float", x2 |-> h]
JStr(s) == [k |-> "String", s |-> s]
JArr(a) == [k |-> "Array", a |-> a]
JObj(o) == [k |-> "Object", o |-> o]

\* Option<T>
None == [some |-> FALSE]
Some(x) == [some |-> TRUE, v |-> x]

\* i64::MAX and u64::MAX on IntBits bits
I64Max == 2 ^ (IntBits - 1) - 1
U64Max == 2 ^ IntBits - 1

\* serde_json::Number::as_i64: an integer representation, never a float, and
\* of the unsigned representation only the values up to i64::MAX
as_i64(num) ==
  IF num.n = "Float" \/ num.x2 \div 2 > I64Max THEN None ELSE Some(num.x2 \div 2)
\* serde_json::Number::as_u64: only the non-negative integer representation
as_u64(num) == IF num.n = "PosInt" THEN Some(num.x2 \div 2) ELSE None
\* serde_json::Number::as_f64: every number; the value is kept doubled
as_f64(num) == Some(num.x2)

\* ------------------------------------------------------------------- AST
NoOp == [op |-> "None"]
RangeOp(incl, t2) == [op |-> "RangeOp", is_inclusive |-> incl, type2 |-> t2]
CtlOp(ctrl, t2) == [op |-> "CtlOp", ctrl |-> ctrl, type2 |-> t2]

TextValue(s) == [t2 |-> "TextValue", value |-> s]
IntValue(i) == [t2 |-> "IntValue", value |-> i]
UintValue(u) == [t2 |-> "UintValue", value |-> u]
FloatValue(h) == [t2 |-> "FloatValue", x2 |-> h]
Typename(id) == [t2 |-> "Typename", ident |-> id]
MapT(g) == [t2 |-> "Map", group |-> g]
ArrayT(g) == [t2 |-> "Array", group |-> g]
ChoiceFromInlineGroup(g) == [t2 |-> "ChoiceFromInlineGroup", group |-> g]
ChoiceFromGroup(id) == [t2 |-> "ChoiceFromGroup", ident |-> id]
TaggedData == [t2 |-> "TaggedData"]

Type1(t2) == [type2 |-> t2, operator |-> NoOp]
Type1Op(t2, o) == [type2 |-> t2, operator |-> o]
\* a Type with a single type choice without operator
T1(t2) == << Type1(t2) >>

NoOccur == [o |-> "None"]
Optional == [o |-> "Optional"]
ZeroOrMore == [o |-> "ZeroOrMore"]
OneOrMore == [o |-> "OneOrMore"]
Exact(l, u) == [o |-> "Exact", lower |-> l, upper |-> u]

NoKey == [mk |-> "None"]
KeyType1(t1, cut) == [mk |-> "Type1", t1 |-> t1, is_cut |-> cut]
Bareword(id) == [mk |-> "Bareword", ident |-> id]
KeyValue(s) == [mk |-> "Value", value |-> s]

ValueMemberKey(oc, mk, t) == [ge |-> "ValueMemberKey", occur |-> oc, member_key |-> mk, entry_type |-> t]
TypeGroupname(oc, id) == [ge |-> "TypeGroupname", occur |-> oc, name |-> id]
InlineGroup(oc, g) == [ge |-> "InlineGroup", occur |-> oc, group |-> g]

TypeRule(name, alt, t) == [r |-> "Type", name |-> name, is_type_choice_alternate |-> alt, value |-> t]
GroupRule(name, alt, e) == [r |-> "Group", name |-> name, is_group_choice_alternate |-> alt, entry |-> e]

\* --------------------------------------------------------------- results
IsErr(r) == r \in {"Target", "Syntax", "Occurrence", "MultiError"}
IsAbort(r) == r \in {"Overflow", "Panic"}

Min(S) == CHOOSE x \in S : \A y \in S : x <= y

\* Iterator::any over a closure that returns true on Ok and pushes the error
\* otherwise, followed by Err(MultiError(errors)): the items are tried in
\* order and the first Ok ends the iteration; rs[i] is the outcome of item i.
IterAny(rs) ==
  LET stops == {i \in 1..Len(rs) : rs[i] = "Ok" \/ IsAbort(rs[i])}
  IN IF stops = {} THEN "MultiError" ELSE rs[Min(stops)]

\* Iterator::all over a closure that is true on Ok: the first failing item ends
\* the iteration.  "Ok" when every item is Ok, otherwise the first outcome
\* that is not Ok.
IterAll(rs) ==
  LET stops == {i \in 1..Len(rs) : rs[i] # "Ok"}
  IN IF stops = {} THEN "Ok" ELSE rs[Min(stops)]

\* ------------------------------------------------------ prelude predicates
is_type_json_prelude(t) ==
  t \in {"any", "uint", "nint", "int", "tstr", "text", "number", "float16", "float32",
         "float64", "float16-32", "float32-64", "float", "false", "true", "bool", "nil",
         "null"}

is_numeric_data_type(t) ==
  t \in {"uint", "nint", "int", "number", "float", "float16", "float32", "float64",
         "float16-32", "float32-64"}

\* Display of a Type, as far as is_type_json_prelude can tell strings apart:
\* a single type choice that is a bare type name prints as its identifier;
\* every other type prints as text that is no identifier (a literal keeps its
\* quotes or digits, several choices are joined by " / ", an operator is
\* appended).
type_to_string(t) ==
  IF Len(t) = 1 /\ t[1].operator.op = "None" /\ t[1].type2.t2 = "Typename"
  THEN t[1].type2.ident
  ELSE "<not an identifier>"

\* ------------------------------------------------------- scalar validators
expect_null(ident) == IF ident \in {"null", "nil"} THEN "Ok" ELSE "Target"

expect_bool(ident, value) ==
  IF value.k = "Bool"
  THEN IF ident = "bool" THEN "Ok"
       ELSE IF ident \in {"true", "false"}
            THEN IF (ident = "true") = value.b THEN "Ok" ELSE "Target"
            ELSE "Target"
  ELSE "Target"

validate_numeric_data_type(ident, value) ==
  IF value.k = "Number"
  THEN CASE ident = "uint" -> IF as_u64(value).some THEN "Ok" ELSE "Target"
         [] ident = "nint" -> IF as_i64(value).some /\ as_i64(value).v < 0 THEN "Ok" ELSE "Target"
         [] ident = "int" -> IF as_i64(value).some THEN "Ok" ELSE "Target"
         [] ident = "number" -> "Ok"
         [] ident = "float16" -> IF as_f64(value).some THEN "Ok" ELSE "Target"
         [] ident = "float32" -> IF as_f64(value).some THEN "Ok" ELSE "Target"
         [] OTHER -> "Target"
  ELSE "Target"

\* f64::EPSILON is far below one half: on numbers kept in halves the test
\* |n - f| < EPSILON is equality
validate_numeric_value(t2, value) ==
  IF value.k = "Number"
  THEN CASE t2.t2 = "IntValue" ->
              IF as_i64(value).some /\ as_i64(value).v = t2.value THEN "Ok" ELSE "Target"
         [] t2.t2 = "FloatValue" ->
              IF as_f64(value).some /\ as_f64(value).v = t2.x2 THEN "Ok" ELSE "Target"
         [] OTHER -> "Ok"
  ELSE "Target"

\* the strings of the model that chrono parses as an RFC 3339 date-time
Rfc3339Strings == {"2020-01-01T00:00:00Z"}
validate_tdate(s) == IF s \in Rfc3339Strings THEN "Ok" ELSE "Syntax"

\* --------------------------------------------------------- rule look-ups
\* the type choices of every type rule named ident, in document order
RECURSIVE TypeChoicesOf(_, _)
TypeChoicesOf(rules, ident) ==
  IF rules = << >> THEN << >>
  ELSE (IF Head(rules).r = "Type" /\ Head(rules).name = ident
        THEN Head(rules).value ELSE << >>) \o TypeChoicesOf(Tail(rules), ident)

IsNumericLiteral(t2) == t2.t2 \in {"IntValue", "UintValue", "FloatValue"}

\* [st |-> "Some", tcs |-> the Type2 list] | [st |-> "None"] | [st |-> "Overflow"]
RECURSIVE numerical_value_type_from_ident(_, _, _)
numerical_value_type_from_ident(cddl, ident, d) ==
  IF d > MaxDepth THEN [st |-> "Overflow"]
  ELSE
  LET tcs == TypeChoicesOf(cddl, ident)
      names == {i \in 1..Len(tcs) : tcs[i].type2.t2 = "Typename"}
      lits == SelectSeq([i \in 1..Len(tcs) |-> tcs[i].type2], IsNumericLiteral)
  IN IF names # {}
     THEN numerical_value_type_from_ident(cddl, tcs[Min(names)].type2.ident, d + 1)
     ELSE IF lits # << >> THEN [st |-> "Some", tcs |-> lits] ELSE [st |-> "None"]

\* ------------------------------------------------------------ validate_range
\* the comparison with the upper bound always inclusive
InRange_always_inclusive(l, u, is_inclusive, n) == n >= l /\ n <= u

\* the comparison after putting the bounds in order
InRange_ordering_bounds(l, u, is_inclusive, n) ==
  IF l <= u THEN (IF is_inclusive THEN n >= l /\ n <= u ELSE n >= l /\ n < u)
  ELSE (IF is_inclusive THEN n >= u /\ n <= l ELSE n >= u /\ n < l)

\* lower <= n and n <= upper (inclusive) or n < upper (exclusive)
InRange(l, u, is_inclusive, n) ==
  IF is_inclusive THEN n >= l /\ n <= u ELSE n >= l /\ n < u

\* the match on one of as_i64 / as_u64 / as_f64 and the comparison
RangeMatch(opt, l, u, is_inclusive) ==
  IF opt.some /\ InRange(l, u, is_inclusive, opt.v) THEN "Ok" ELSE "Target"

RECURSIVE validate_range(_, _, _, _, _)
\* validate_range with an integer upper bound of a float lower bound compared
\* as a float
validate_range_coercing_bounds(cddl, lower, upper, is_inclusive, value) ==
  LET upperIdent ==
        LET t2 == numerical_value_type_from_ident(cddl, upper.ident, 0)
        IN CASE t2.st = "Some" ->
                  IterAny([i \in 1..Len(t2.tcs) |->
                             validate_range(cddl, lower, t2.tcs[i], is_inclusive, value)])
             [] t2.st = "None" -> "Syntax"
             [] OTHER -> "Overflow"
      lowerIdent ==
        LET t2 == numerical_value_type_from_ident(cddl, lower.ident, 0)
        IN CASE t2.st = "Some" ->
                  IterAny([i \in 1..Len(t2.tcs) |->
                             validate_range(cddl, t2.tcs[i], upper, is_inclusive, value)])
             [] t2.st = "None" -> "Syntax"
             [] OTHER -> "Overflow"
  IN
  IF value.k # "Number" THEN "Target"
  ELSE CASE lower.t2 = "IntValue" ->
              (CASE upper.t2 = "IntValue" ->
                      RangeMatch(as_i64(value), lower.value, upper.value, is_inclusive)
                 [] upper.t2 = "UintValue" ->
                      RangeMatch(as_i64(value), lower.value, upper.value, is_inclusive)
                 [] upper.t2 = "Typename" -> upperIdent
                 [] OTHER -> "Syntax")
         [] lower.t2 = "UintValue" ->
              (CASE upper.t2 = "UintValue" ->
                      RangeMatch(as_u64(value), lower.value, upper.value, is_inclusive)
                 [] upper.t2 = "Typename" -> upperIdent
                 [] OTHER -> "Syntax")
         [] lower.t2 = "FloatValue" ->
              (CASE upper.t2 = "FloatValue" ->
                      RangeMatch(as_f64(value), lower.x2, upper.x2, is_inclusive)
                 [] upper.t2 \in {"IntValue", "UintValue"} ->
                      RangeMatch(as_f64(value), lower.x2, 2 * upper.value, is_inclusive)
                 [] upper.t2 = "Typename" -> upperIdent
                 [] OTHER -> "Syntax")
         [] lower.t2 = "Typename" -> lowerIdent
         [] OTHER -> "Syntax"

validate_range(cddl, lower, upper, is_inclusive, value) ==
  LET upperIdent ==
        LET t2 == numerical_value_type_from_ident(cddl, upper.ident, 0)
        IN CASE t2.st = "Some" ->
                  IterAny([i \in 1..Len(t2.tcs) |->
                             validate_range(cddl, lower, t2.tcs[i], is_inclusive, value)])
             [] t2.st = "None" -> "Syntax"
             [] OTHER -> "Overflow"
      lowerIdent ==
        LET t2 == numerical_value_type_from_ident(cddl, lower.ident, 0)
        IN CASE t2.st = "Some" ->
                  IterAny([i \in 1..Len(t2.tcs) |->
                             validate_range(cddl, t2.tcs[i], upper, is_inclusive, value)])
             [] t2.st = "None" -> "Syntax"
             [] OTHER -> "Overflow"
  IN
  IF value.k # "Number" THEN "Target"
  ELSE CASE lower.t2 = "IntValue" ->
              (CASE upper.t2 = "IntValue" ->
                      RangeMatch(as_i64(value), lower.value, upper.value, is_inclusive)
                 [] upper.t2 = "UintValue" ->
                      RangeMatch(as_i64(value), lower.value, upper.value, is_inclusive)
                 [] upper.t2 = "Typename" -> upperIdent
                 [] OTHER -> "Syntax")
         [] lower.t2 = "UintValue" ->
              (CASE upper.t2 = "UintValue" ->
                      RangeMatch(as_u64(value), lower.value, upper.value, is_inclusive)
                 [] upper.t2 = "Typename" -> upperIdent
                 [] OTHER -> "Syntax")
         [] lower.t2 = "FloatValue" ->
              (CASE upper.t2 = "FloatValue" ->
                      RangeMatch(as_f64(value), lower.x2, upper.x2, is_inclusive)
                 [] upper.t2 = "Typename" -> upperIdent
                 [] OTHER -> "Syntax")
         [] lower.t2 = "Typename" -> lowerIdent
         [] OTHER -> "Syntax"

\* ------------------------------------------- helpers of the control engine
\* outcomes of the recursive predicates: "true", "false", or "Overflow"
BoolAny(rs) ==
  LET stops == {i \in 1..Len(rs) : rs[i] # "false"}
  IN IF stops = {} THEN "false" ELSE rs[Min(stops)]

RECURSIVE Flatten(_)
Flatten(ss) == IF ss = << >> THEN << >> ELSE Head(ss) \o Flatten(Tail(ss))

\* a loop that appends f(item)? for every item: the first failure is returned.
\* rs[i] is [st |-> "Ok", vals |-> seq] or [st |-> a failure]
AppendAll(rs) ==
  LET stops == {i \in 1..Len(rs) : rs[i].st # "Ok"}
  IN IF stops = {} THEN [st |-> "Ok", vals |-> Flatten([i \in 1..Len(rs) |-> rs[i].vals])]
     ELSE [st |-> rs[Min(stops)].st]

RECURSIVE is_type_string_data_type(_, _, _)
is_type_string_data_type(cddl, t2, d) ==
  IF d > MaxDepth THEN "Overflow"
  ELSE IF t2.t2 # "Typename" THEN "false"
  ELSE IF t2.ident \in {"text", "tstr"} THEN "true"
  ELSE LET tcs == TypeChoicesOf(cddl, t2.ident)
       IN BoolAny([i \in 1..Len(tcs) |-> is_type_string_data_type(cddl, tcs[i].type2, d + 1)])

RECURSIVE is_type_numeric_data_type(_, _, _)
is_type_numeric_data_type(cddl, t2, d) ==
  IF d > MaxDepth THEN "Overflow"
  ELSE IF t2.t2 # "Typename" THEN "false"
  ELSE IF is_numeric_data_type(t2.ident) THEN "true"
  ELSE LET tcs == TypeChoicesOf(cddl, t2.ident)
       IN BoolAny([i \in 1..Len(tcs) |-> is_type_numeric_data_type(cddl, tcs[i].type2, d + 1)])

RECURSIVE text_values_from_type(_, _, _)
text_values_from_type(cddl, t2, d) ==
  IF d > MaxDepth THEN [st |-> "Overflow"]
  ELSE CASE t2.t2 = "TextValue" -> [st |-> "Ok", vals |-> << t2.value >>]
         [] t2.t2 = "Typename" ->
              LET tcs == TypeChoicesOf(cddl, t2.ident)
              IN AppendAll([i \in 1..Len(tcs) |-> text_values_from_type(cddl, tcs[i].type2, d + 1)])
         [] OTHER -> [st |-> "Syntax"]

RECURSIVE numerical_ident_from_type(_, _, _)
numerical_ident_from_type(cddl, t2, d) ==
  IF d > MaxDepth THEN [st |-> "Overflow"]
  ELSE IF t2.t2 # "Typename" THEN [st |-> "Syntax"]
  ELSE IF is_numeric_data_type(t2.ident) THEN [st |-> "Ok", vals |-> << t2.ident >>]
  ELSE LET tcs == TypeChoicesOf(cddl, t2.ident)
       IN AppendAll([i \in 1..Len(tcs) |-> numerical_ident_from_type(cddl, tcs[i].type2, d + 1)])

\* token::Numeric
NumINT(i) == [num |-> "INT", v |-> i]
NumUINT(u) == [num |-> "UINT", v |-> u]
NumFLOAT(h) == [num |-> "FLOAT", v |-> h]

SeqToSet(q) == {q[i] : i \in 1..Len(q)}

RECURSIVE numeric_values_from_type(_, _, _, _)
numeric_values_from_type(cddl, target, ident, d) ==
  IF d > MaxDepth THEN [st |-> "Overflow"]
  ELSE
  LET target_idents == numerical_ident_from_type(cddl, target, 0)
  IN IF target_idents.st # "Ok" THEN [st |-> target_idents.st]
     ELSE LET tis == SeqToSet(target_idents.vals)
          IN CASE ident.t2 = "IntValue" ->
                    IF tis \cap {"int", "number"} # {}
                    THEN [st |-> "Ok", vals |-> << NumINT(ident.value) >>]
                    ELSE [st |-> "Syntax"]
               [] ident.t2 = "UintValue" ->
                    IF tis \cap {"uint", "number"} # {}
                    THEN [st |-> "Ok", vals |-> << NumUINT(ident.value) >>]
                    ELSE [st |-> "Syntax"]
               [] ident.t2 = "FloatValue" ->
                    IF tis \cap {"float", "float16", "float32", "float64", "float16-32",
                                 "float32-64", "number"} # {}
                    THEN [st |-> "Ok", vals |-> << NumFLOAT(ident.x2) >>]
                    ELSE [st |-> "Syntax"]
               [] ident.t2 = "Typename" ->
                    LET tcs == TypeChoicesOf(cddl, ident.ident)
                    IN AppendAll([i \in 1..Len(tcs) |->
                                    numeric_values_from_type(cddl, target, tcs[i].type2, d + 1)])
               [] OTHER -> [st |-> "Syntax"]

\* the value of a JSON number in the domain of the controller literal
NumericOperand(n, value) ==
  CASE n.num = "INT" -> as_i64(value)
    [] n.num = "UINT" -> as_u64(value)
    [] OTHER -> as_f64(value)

\* controls::validate_{lt,le,gt,ge,eq_numeric}_control
validate_numeric_control(cmp, n, value) ==
  IF value.k # "Number" THEN "Target"
  ELSE LET x == NumericOperand(n, value)
       IN IF x.some /\ (CASE cmp = "lt" -> x.v < n.v
                          [] cmp = "le" -> x.v <= n.v
                          [] cmp = "gt" -> x.v > n.v
                          [] cmp = "ge" -> x.v >= n.v
                          [] OTHER -> x.v = n.v)
          THEN "Ok" ELSE "Target"

\* controls::validate_eq_text_control
validate_eq_text_control(c, value) ==
  IF value.k = "String" /\ value.s = c THEN "Ok" ELSE "Target"

\* the (pattern, text) pairs of the model on which the regex engine matches
PcreMatches == {<< "^a+$", "a" >>, << "^a+$", "aa" >>}
\* controls::validate_pcre_control
validate_pcre_control(c, value) ==
  IF value.k = "String" /\ << c, value.s >> \in PcreMatches THEN "Ok" ELSE "Target"

\* token::lookup_control_from_str
lookup_control_from_str(operator) ==
  CASE operator = ".pcre" -> "PCRE"
    [] operator = ".regexp" -> "CREGEXP"
    [] operator = ".lt" -> "LT"
    [] operator = ".le" -> "LE"
    [] operator = ".gt" -> "GT"
    [] operator = ".ge" -> "GE"
    [] operator = ".eq" -> "EQ"
    [] OTHER -> "OTHER"

validate_control_operator(cddl, target, operator, controller, value) ==
  LET tok == lookup_control_from_str(operator)
      isNum == is_type_numeric_data_type(cddl, target, 0)
      isStr == is_type_string_data_type(cddl, target, 0)
      numeric(cmp) ==
        LET ns == numeric_values_from_type(cddl, target, controller, 0)
        IN IF ns.st # "Ok" THEN ns.st
           ELSE IterAny([i \in 1..Len(ns.vals) |-> validate_numeric_control(cmp, ns.vals[i], value)])
      text(pcre) ==
        LET ts == text_values_from_type(cddl, controller, 0)
        IN IF ts.st # "Ok" THEN ts.st
           ELSE IterAny([i \in 1..Len(ts.vals) |->
                           IF pcre THEN validate_pcre_control(ts.vals[i], value)
                           ELSE validate_eq_text_control(ts.vals[i], value)])
  IN CASE tok \in {"PCRE", "CREGEXP"} ->
            (CASE isStr = "Overflow" -> "Overflow"
               [] isStr = "false" -> "Syntax"
               [] OTHER -> text(TRUE))
       [] tok \in {"LT", "LE", "GT", "GE"} ->
            (CASE isNum = "Overflow" -> "Overflow"
               [] isNum = "false" -> "Syntax"
               [] OTHER -> numeric(CASE tok = "LT" -> "lt" [] tok = "LE" -> "le"
                                     [] tok = "GT" -> "gt" [] OTHER -> "ge"))
       [] tok = "EQ" ->
            (CASE isNum = "Overflow" -> "Overflow"
               [] isNum = "true" -> numeric("eq")
               [] isStr = "Overflow" -> "Overflow"
               [] isStr = "true" -> text(FALSE)
               [] OTHER -> "Panic")
       [] OTHER -> "Panic"

\* ------------------------------------------------ validate_array_occurrence
\* occur is never NoOccur here; the bounds of Exact are Option<usize>
validate_array_occurrence(occur, len) ==
  CASE occur.o \in {"ZeroOrMore", "Optional"} -> "Ok"
    [] occur.o = "OneOrMore" -> IF len = 0 THEN "Occurrence" ELSE "Ok"
    [] OTHER ->
         IF occur.lower.some /\ occur.upper.some
            /\ (len < occur.lower.v \/ len > occur.upper.v) THEN "Occurrence"
         ELSE IF occur.lower.some /\ len < occur.lower.v THEN "Occurrence"
         ELSE IF occur.upper.some /\ len > occur.upper.v THEN "Occurrence"
         ELSE "Ok"

\* ---------------------------------------------------- the recursive walk
\* The validator's functions call each other in a cycle.  Every call goes
\* through Invoke, which runs the body of the function named in the call
\* record on the arguments of the record.
RECURSIVE Invoke(_)
validate_rule_for_ident(cddl, ident, is_enumeration, occur, value, d) ==
  Invoke([f |-> "validate_rule_for_ident", cddl |-> cddl, ident |-> ident, is_enumeration |-> is_enumeration,
          occur |-> occur, value |-> value, d |-> d])
validate_type(cddl, t, occur, value, d) ==
  Invoke([f |-> "validate_type", cddl |-> cddl, t |-> t,
          occur |-> occur, value |-> value, d |-> d])
validate_type1(cddl, t1, occur, value, d) ==
  Invoke([f |-> "validate_type1", cddl |-> cddl, t1 |-> t1,
          occur |-> occur, value |-> value, d |-> d])
validate_type2(cddl, t2, occur, value, d) ==
  Invoke([f |-> "validate_type2", cddl |-> cddl, t2 |-> t2,
          occur |-> occur, value |-> value, d |-> d])
validate_group_to_choice_enum(cddl, g, occur, value, d) ==
  Invoke([f |-> "validate_group_to_choice_enum", cddl |-> cddl, g |-> g,
          occur |-> occur, value |-> value, d |-> d])
validate_group(cddl, g, occur, value, d) ==
  Invoke([f |-> "validate_group", cddl |-> cddl, g |-> g,
          occur |-> occur, value |-> value, d |-> d])
validate_group_choice(cddl, gc, occur, value, d) ==
  Invoke([f |-> "validate_group_choice", cddl |-> cddl, gc |-> gc,
          occur |-> occur, value |-> value, d |-> d])
GroupChoiceLoop(cddl, gc, wildcard, occur, value, idx, nerrors, d) ==
  Invoke([f |-> "GroupChoiceLoop", cddl |-> cddl, gc |-> gc, wildcard |-> wildcard, occur |-> occur,
          value |-> value, idx |-> idx, nerrors |-> nerrors, d |-> d])
validate_group_entry(cddl, ge, is_enumeration, wildcard, occur, value, d) ==
  Invoke([f |-> "validate_group_entry", cddl |-> cddl, ge |-> ge, is_enumeration |-> is_enumeration,
          wildcard |-> wildcard, occur |-> occur, value |-> value, d |-> d])

\* the first rule named ident, type rule or group rule
RulesNamed(cddl, ident) == {i \in 1..Len(cddl) : cddl[i].name = ident}

\* d counts the rule references on the stack
validate_rule_for_ident_body(cddl, ident, is_enumeration, occur, value, d) ==
  IF d >= MaxDepth THEN "Overflow"
  ELSE IF RulesNamed(cddl, ident) = {} THEN "Syntax"
  ELSE LET rule == cddl[Min(RulesNamed(cddl, ident))]
       IN IF rule.r = "Type"
          THEN validate_type(cddl, rule.value, occur, value, d + 1)
          ELSE validate_group_entry(cddl, rule.entry, is_enumeration, None, occur, value, d + 1)

validate_type_body(cddl, t, occur, value, d) ==
  IterAny([i \in 1..Len(t) |-> validate_type1(cddl, t[i], occur, value, d)])

validate_type1_body(cddl, t1, occur, value, d) ==
  CASE t1.operator.op = "RangeOp" ->
         validate_range(cddl, t1.type2, t1.operator.type2, t1.operator.is_inclusive, value)
    [] t1.operator.op = "CtlOp" ->
         validate_control_operator(cddl, t1.type2, t1.operator.ctrl, t1.operator.type2, value)
    [] OTHER -> validate_type2(cddl, t1.type2, occur, value, d)

\* "uri" is the build without the nightly feature
validate_type2_body(cddl, t2, occur, value, d) ==
  CASE t2.t2 = "TextValue" ->
         IF value.k = "String" /\ value.s = t2.value THEN "Ok" ELSE "Target"
    [] t2.t2 \in {"IntValue", "UintValue", "FloatValue"} ->
         IF value.k = "Number" THEN validate_numeric_value(t2, value) ELSE "Target"
    [] t2.t2 = "Typename" ->
         IF t2.ident = "any" THEN "Ok"
         ELSE CASE value.k = "Null" -> expect_null(t2.ident)
                [] value.k = "Bool" -> expect_bool(t2.ident, value)
                [] value.k = "String" ->
                     (CASE t2.ident \in {"tstr", "text"} -> "Ok"
                        [] t2.ident = "tdate" -> validate_tdate(value.s)
                        [] t2.ident = "uri" -> "Ok"
                        [] OTHER ->
                             IF is_type_json_prelude(t2.ident) THEN "Target"
                             ELSE validate_rule_for_ident(cddl, t2.ident, FALSE, occur, value, d))
                [] value.k = "Number" -> validate_numeric_data_type(t2.ident, value)
                [] OTHER -> validate_rule_for_ident(cddl, t2.ident, FALSE, occur, value, d)
    [] t2.t2 = "Array" ->
         IF value.k = "Array" THEN validate_group(cddl, t2.group, occur, value, d) ELSE "Target"
    [] t2.t2 = "Map" ->
         IF value.k = "Object" THEN validate_group(cddl, t2.group, occur, value, d) ELSE "Target"
    [] t2.t2 = "ChoiceFromInlineGroup" ->
         validate_group_to_choice_enum(cddl, t2.group, occur, value, d)
    [] t2.t2 = "ChoiceFromGroup" ->
         validate_rule_for_ident(cddl, t2.ident, TRUE, occur, value, d)
    [] OTHER -> "Syntax"

\* the nested any: every entry of every group choice in order; an entry that
\* is no ValueMemberKey counts as a failure that pushes no error
validate_group_to_choice_enum_body(cddl, g, occur, value, d) ==
  LET entries == Flatten(g)
  IN IterAny([i \in 1..Len(entries) |->
                IF entries[i].ge = "ValueMemberKey"
                THEN validate_type(cddl, entries[i].entry_type, occur, value, d)
                ELSE "Target"])

validate_group_body(cddl, g, occur, value, d) ==
  IterAny([i \in 1..Len(g) |-> validate_group_choice(cddl, g[i], occur, value, d)])

\* ge is the wildcard entry `* tstr => T` that find_map looks for
IsWildcardEntry(ge) ==
  /\ ge.ge = "ValueMemberKey"
  /\ ge.occur.o = "ZeroOrMore"
  /\ ge.member_key.mk = "Type1"
  /\ ~ge.member_key.is_cut
  /\ ge.member_key.t1.type2.t2 = "Typename"
  /\ ge.member_key.t1.type2.ident = "tstr"

\* Option<&Type>: the entry type of the first wildcard entry
wildcard_entry(gc) ==
  LET ws == {i \in 1..Len(gc) : IsWildcardEntry(gc[i])}
  IN IF ws = {} THEN None ELSE Some(gc[Min(ws)].entry_type)

validate_group_choice_body(cddl, gc, occur, value, d) ==
  GroupChoiceLoop(cddl, gc, wildcard_entry(gc), occur, value, 1, 0, d)

\* `?` on a Result: the error returns at once, Ok goes on with rest
Try(r, rest) == IF r = "Ok" THEN rest ELSE r

\* the match of the object branch: Ok goes on, an error is pushed to errors
\* and the loop goes on with it counted
PushErr(r, rest, rest_with_error) ==
  IF r = "Ok" THEN rest ELSE IF IsAbort(r) THEN r ELSE rest_with_error

\* the arm of `* name` / `+ name` / `? name` in an array: the occurrence is
\* checked first, then every item against the name
ArrayItems(ao, occur, len, all) ==
  IF ao # "Ok" THEN ao
  ELSE IF occur.o = "ZeroOrMore" /\ len = 0 THEN "Ok"
  ELSE IF all = "Ok" THEN "Ok"
  ELSE IF IsAbort(all) THEN all
  ELSE "Target"

\* the for loop over the group entries from index idx (1-based) on, with
\* nerrors errors collected so far, and the code after the loop
GroupChoiceLoop_body(cddl, gc, wildcard, occur, value, idx, nerrors, d) ==
  IF idx > Len(gc) THEN (IF nerrors > 0 THEN "MultiError" ELSE "Ok")
  ELSE
  CASE value.k = "Array" ->
         (CASE gc[idx].ge = "InlineGroup" ->
                 Try(validate_group(cddl, gc[idx].group, NoOccur, value, d),
                     GroupChoiceLoop(cddl, gc, wildcard, occur, value, idx + 1, nerrors, d))
            [] gc[idx].ge = "TypeGroupname" /\ Len(gc) = 1 /\ gc[idx].occur.o # "None" ->
                 ArrayItems(validate_array_occurrence(gc[idx].occur, Len(value.a)),
                            gc[idx].occur, Len(value.a),
                            IF is_type_json_prelude(gc[idx].name)
                            THEN IterAll([i \in 1..Len(value.a) |->
                                   validate_type2(cddl, Typename(gc[idx].name), NoOccur, value.a[i], d)])
                            ELSE IterAll([i \in 1..Len(value.a) |->
                                   validate_rule_for_ident(cddl, gc[idx].name, FALSE, NoOccur, value.a[i], d)]))
            [] gc[idx].ge = "ValueMemberKey" /\ gc[idx].occur.o = "None" /\ idx <= Len(value.a) ->
                 Try(validate_group_entry(cddl, gc[idx], FALSE, None, occur, value.a[idx], d),
                     GroupChoiceLoop(cddl, gc, wildcard, occur, value, idx + 1, nerrors, d))
            [] OTHER -> GroupChoiceLoop(cddl, gc, wildcard, occur, value, idx + 1, nerrors, d))
    [] value.k = "Object" ->
         PushErr(validate_group_entry(cddl, gc[idx], FALSE, wildcard, occur, value, d),
                 GroupChoiceLoop(cddl, gc, wildcard, occur, value, idx + 1, nerrors, d),
                 GroupChoiceLoop(cddl, gc, wildcard, occur, value, idx + 1, nerrors + 1, d))
    [] OTHER -> "Target"

HasKey(value, key) == key \in DOMAIN value.o

\* the fallback test without the look at the cut marker
falls_back_ignoring_cut(r, is_cut, wildcard) == IsErr(r) /\ wildcard.some

\* r.is_err() && !is_cut, and a wildcard entry to fall back to
falls_back_to_wildcard(r, is_cut, wildcard) == IsErr(r) /\ ~is_cut /\ wildcard.some

\* r of the entry type, or the result for the wildcard type when the
\* entry falls back to it
OrWildcard(r, is_cut, wildcard, wildcard_r) ==
  IF falls_back_to_wildcard(r, is_cut, wildcard) THEN wildcard_r ELSE r

\* the entry of a map or array, or of a group rule
validate_group_entry_body(cddl, ge, is_enumeration, wildcard, occur, value, d) ==
  CASE ge.ge = "ValueMemberKey" ->
         LET mk == ge.member_key
             et == ge.entry_type
         IN
         CASE mk.mk = "Type1" ->
                (CASE mk.t1.type2.t2 = "TextValue" ->
                        LET t == mk.t1.type2.value
                        IN IF value.k = "Object"
                           THEN IF ~is_type_json_prelude(type_to_string(et))
                                THEN IF HasKey(value, t)
                                     THEN validate_type(cddl, et, occur, value.o[t], d)
                                     ELSE validate_type(cddl, et, occur, value, d)
                                ELSE IF HasKey(value, t)
                                     THEN OrWildcard(validate_type(cddl, et, occur, value.o[t], d),
                                                     mk.is_cut, wildcard,
                                                     validate_type(cddl, wildcard.v, occur, value.o[t], d))
                                     ELSE "Target"
                           ELSE validate_type(cddl, et, occur, value, d)
                   [] mk.t1.type2.t2 = "Typename" /\ mk.t1.type2.ident \in {"tstr", "text"} -> "Ok"
                   [] OTHER -> "Syntax")
           [] mk.mk = "Bareword" ->
                IF value.k = "Object"
                THEN IF ~is_type_json_prelude(type_to_string(et))
                     THEN IF HasKey(value, mk.ident)
                          THEN validate_type(cddl, et, ge.occur, value.o[mk.ident], d)
                          ELSE validate_type(cddl, et, ge.occur, value, d)
                     ELSE IF HasKey(value, mk.ident)
                          THEN validate_type(cddl, et, ge.occur, value.o[mk.ident], d)
                          ELSE IF occur.o \in {"Optional", "OneOrMore"} THEN "Ok" ELSE "Target"
                ELSE validate_type(cddl, et, ge.occur, value, d)
           [] mk.mk = "Value" -> "Syntax"
           [] OTHER -> validate_type(cddl, et, occur, value, d)
    [] ge.ge = "TypeGroupname" ->
         validate_rule_for_ident(cddl, ge.name, is_enumeration, ge.occur, value, d)
    [] OTHER ->
         LET o == IF ge.occur.o # "None" THEN ge.occur ELSE occur
         IN IF is_enumeration
            THEN validate_group_to_choice_enum(cddl, ge.group, o, value, d)
            ELSE validate_group(cddl, ge.group, o, value, d)

\* the body of the called function on the arguments of the call
Invoke(c) ==
  CASE c.f = "validate_rule_for_ident" ->
         validate_rule_for_ident_body(c.cddl, c.ident, c.is_enumeration, c.occur, c.value, c.d)
    [] c.f = "validate_type" ->
         validate_type_body(c.cddl, c.t, c.occur, c.value, c.d)
    [] c.f = "validate_type1" ->
         validate_type1_body(c.cddl, c.t1, c.occur, c.value, c.d)
    [] c.f = "validate_type2" ->
         validate_type2_body(c.cddl, c.t2, c.occur, c.value, c.d)
    [] c.f = "validate_group_to_choice_enum" ->
         validate_group_to_choice_enum_body(c.cddl, c.g, c.occur, c.value, c.d)
    [] c.f = "validate_group" ->
         validate_group_body(c.cddl, c.g, c.occur, c.value, c.d)
    [] c.f = "validate_group_choice" ->
         validate_group_choice_body(c.cddl, c.gc, c.occur, c.value, c.d)
    [] c.f = "GroupChoiceLoop" ->
         GroupChoiceLoop_body(c.cddl, c.gc, c.wildcard, c.occur, c.value, c.idx, c.nerrors, c.d)
    [] c.f = "validate_group_entry" ->
         validate_group_entry_body(c.cddl, c.ge, c.is_enumeration, c.wildcard, c.occur, c.value, c.d)

\* root_rule with a loop that skips the rules declared with /=
root_rule_skipping_alternates(cddl) ==
  LET trs == {i \in 1..Len(cddl) : cddl[i].r = "Type" /\ ~cddl[i].is_type_choice_alternate}
  IN IF trs = {} THEN 0 ELSE Min(trs)

\* the index of the rule the for loop of validate returns from: the first
\* type rule of the document; 0 when the loop runs to its end
root_rule(cddl) ==
  LET trs == {i \in 1..Len(cddl) : cddl[i].r = "Type"}
  IN IF trs = {} THEN 0 ELSE Min(trs)

\* the mutant of validate that reports a rule list without a type rule
validate_requiring_root(cddl, value) ==
  IF root_rule(cddl) = 0 THEN "Syntax"
  ELSE validate_type(cddl, cddl[root_rule(cddl)].value, NoOccur, value, 0)

validate(cddl, value) ==
  IF root_rule(cddl) = 0 THEN "Ok"
  ELSE validate_type(cddl, cddl[root_rule(cddl)].value, NoOccur, value, 0)

\* ================================================= the validator module
\* Helpers of src/src/validator/mod.rs.  They are free functions over the rule
\* list; an array enters only through its length.

\* EntryCount; entry_occurrence is an Option<Occur>, None being NoOccur
EntryCount(count, entry_occurrence) ==
  [count |-> count, entry_occurrence |-> entry_occurrence]

\* the mutant of validate_entry_count that compares the counts only
validate_entry_count_by_count_only(valid_entry_counts, num_entries) ==
  \E i \in 1..Len(valid_entry_counts) : num_entries = valid_entry_counts[i].count

validate_entry_count(valid_entry_counts, num_entries) ==
  \E i \in 1..Len(valid_entry_counts) :
    LET ec == valid_entry_counts[i]
        eo == ec.entry_occurrence
    IN \/ num_entries = ec.count
       \/ CASE eo.o \in {"ZeroOrMore", "Optional"} -> TRUE
            [] eo.o = "OneOrMore" -> num_entries > 0
            [] eo.o = "Exact" ->
                 IF eo.lower.some
                 THEN IF eo.upper.some
                      THEN num_entries >= eo.lower.v /\ num_entries <= eo.upper.v
                      ELSE num_entries >= eo.lower.v
                 ELSE IF eo.upper.some THEN num_entries <= eo.upper.v ELSE FALSE
            [] OTHER -> FALSE

\* the mutant of OccurrenceErrors in which `?` does not look at the length
OccurrenceErrors_optional_unchecked(occurrence, len) ==
  CASE occurrence.o = "ZeroOrMore" -> << >>
    [] occurrence.o = "OneOrMore" ->
         IF len = 0 THEN << "at least one item" >> ELSE << >>
    [] occurrence.o = "Exact" ->
         IF occurrence.lower.some
         THEN IF occurrence.upper.some
              THEN (IF occurrence.lower.v = occurrence.upper.v /\ len # occurrence.lower.v
                    THEN << "exactly lower items" >> ELSE << >>)
                   \o (IF len < occurrence.lower.v \/ len > occurrence.upper.v
                       THEN << "between lower and upper items" >> ELSE << >>)
              ELSE IF len < occurrence.lower.v THEN << "at least lower items" >> ELSE << >>
         ELSE IF occurrence.upper.some /\ len > occurrence.upper.v
              THEN << "not more than upper items" >> ELSE << >>
    [] occurrence.o = "Optional" -> << >>
    [] OTHER -> IF len = 0 THEN << "exactly one item" >> ELSE << >>

\* the messages the match on the occurrence pushes, in order
OccurrenceErrors(occurrence, len) ==
  CASE occurrence.o = "ZeroOrMore" -> << >>
    [] occurrence.o = "OneOrMore" ->
         IF len = 0 THEN << "at least one item" >> ELSE << >>
    [] occurrence.o = "Exact" ->
         IF occurrence.lower.some
         THEN IF occurrence.upper.some
              THEN (IF occurrence.lower.v = occurrence.upper.v /\ len # occurrence.lower.v
                    THEN << "exactly lower items" >> ELSE << >>)
                   \o (IF len < occurrence.lower.v \/ len > occurrence.upper.v
                       THEN << "between lower and upper items" >> ELSE << >>)
              ELSE IF len < occurrence.lower.v THEN << "at least lower items" >> ELSE << >>
         ELSE IF occurrence.upper.some /\ len > occurrence.upper.v
              THEN << "not more than upper items" >> ELSE << >>
    [] occurrence.o = "Optional" ->
         IF len > 1 THEN << "0 or 1 items" >> ELSE << >>
    [] OTHER -> IF len = 0 THEN << "exactly one item" >> ELSE << >>

\* iter_items after the match on the occurrence
IterItems(occurrence, len) ==
  CASE occurrence.o = "ZeroOrMore" -> TRUE
    [] occurrence.o = "OneOrMore" -> len # 0
    [] occurrence.o = "Exact" -> TRUE
    [] OTHER -> FALSE

\* validator::validate_array_occurrence; occurrence is an Option<&Occur>,
\* entry_counts an Option<&[EntryCount]>, len is values.len().
\* [st |-> "Ok", iter_items, allow_empty_array] | [st |-> "Err", errors]
validator_validate_array_occurrence(occurrence, entry_counts, len) ==
  LET iter_items == IterItems(occurrence, len)
      allow_empty_array == occurrence.o = "Optional"
      count_errors ==
        IF ~iter_items /\ ~allow_empty_array /\ entry_counts.some
           /\ ~validate_entry_count(entry_counts.v, len)
        THEN [i \in 1..Len(entry_counts.v) |->
                IF entry_counts.v[i].entry_occurrence.o # "None"
                THEN "length per occurrence" ELSE "length count"]
        ELSE << >>
      errors == OccurrenceErrors(occurrence, len) \o count_errors
  IN IF errors # << >> THEN [st |-> "Err", errors |-> errors]
     ELSE [st |-> "Ok", iter_items |-> iter_items, allow_empty_array |-> allow_empty_array]

\* token::lookup_ident on the identifiers of the prelude; every other
\* identifier is Token::IDENT
lookup_ident(ident) ==
  CASE ident = "uint" -> "UINT"
    [] ident = "nint" -> "NINT"
    [] ident = "int" -> "INT"
    [] ident = "integer" -> "INTEGER"
    [] ident = "number" -> "NUMBER"
    [] ident = "float" -> "FLOAT"
    [] ident = "float16" -> "FLOAT16"
    [] ident = "float32" -> "FLOAT32"
    [] ident = "float64" -> "FLOAT64"
    [] ident = "float16-32" -> "FLOAT1632"
    [] ident = "float32-64" -> "FLOAT3264"
    [] ident = "unsigned" -> "UNSIGNED"
    [] ident = "tstr" -> "TSTR"
    [] ident = "text" -> "TEXT"
    [] OTHER -> "IDENT"

\* the body the is_ident_*_data_type functions share: the tokens of the class,
\* then any type choice of any same-named type rule that is a type name for
\* which the function holds.  "true", "false" or "Overflow"
RECURSIVE is_ident_data_type(_, _, _, _)
is_ident_data_type(tokens, cddl, ident, d) ==
  IF d > MaxDepth THEN "Overflow"
  ELSE IF lookup_ident(ident) \in tokens THEN "true"
  ELSE LET tcs == TypeChoicesOf(cddl, ident)
       IN BoolAny([i \in 1..Len(tcs) |->
                     IF tcs[i].type2.t2 = "Typename"
                     THEN is_ident_data_type(tokens, cddl, tcs[i].type2.ident, d + 1)
                     ELSE "false"])

is_ident_numeric_data_type(cddl, ident) ==
  is_ident_data_type({"UINT", "NINT", "INTEGER", "INT", "NUMBER", "FLOAT", "FLOAT16",
                      "FLOAT32", "FLOAT64", "FLOAT1632", "FLOAT3264", "UNSIGNED"},
                     cddl, ident, 0)

is_ident_string_data_type(cddl, ident) ==
  is_ident_data_type({"TEXT", "TSTR"}, cddl, ident, 0)

\* find_map: the first element of q that is not None; a StackOverflow met
\* before it ends the walk
FindMap(q) ==
  LET stops == {i \in 1..Len(q) : q[i] # None}
  IN IF stops = {} THEN None ELSE q[Min(stops)]

\* the stack ran out before an Option was returned
StackOverflow == [some |-> FALSE, overflow |-> TRUE]

\* unwrap_rule_from_ident: Some(rule), None, or StackOverflow
RECURSIVE unwrap_rule_from_ident(_, _, _)
unwrap_rule_from_ident(cddl, ident, d) ==
  IF d > MaxDepth THEN StackOverflow
  ELSE FindMap([k \in 1..Len(cddl) |->
         LET r == cddl[k]
         IN IF r.r = "Type" /\ r.name = ident /\ ~r.is_type_choice_alternate
            THEN LET tcs == r.value
                     names == {i \in 1..Len(tcs) : tcs[i].type2.t2 = "Typename"}
                 IN IF \E i \in 1..Len(tcs) : tcs[i].type2.t2 \in {"Map", "Array", "TaggedData"}
                    THEN Some(r)
                    ELSE IF names # {}
                    THEN unwrap_rule_from_ident(cddl, tcs[Min(names)].type2.ident, d + 1)
                    ELSE None
            ELSE None])

\* ---- format_regex
\* A string is the sequence of its chars.  `é` stands for the chars that take
\* more than one byte in UTF-8.
len_utf8(c) == IF c = "é" THEN 2 ELSE 1

\* str::char_indices: the byte offset of every char
RECURSIVE ByteLen(_)
ByteLen(str) == IF str = << >> THEN 0 ELSE len_utf8(Head(str)) + ByteLen(Tail(str))
char_indices(str) == [i \in 1..Len(str) |-> ByteLen(SubSeq(str, 1, i - 1))]

\* str.chars().nth(n)
nth(str, n) == IF n < Len(str) THEN Some(str[n + 1]) ELSE None

\* regex_syntax::is_meta_character
is_meta_character(c) ==
  c \in {"\\", ".", "+", "*", "?", "(", ")", "|", "[", "]", "{", "}", "^", "$", "#", "&",
         "-", "~"}

\* str::replace: every non-overlapping match of from, left to right
RECURSIVE replace(_, _, _)
replace(str, from, to) ==
  IF Len(str) < Len(from) THEN str
  ELSE IF SubSeq(str, 1, Len(from)) = from
       THEN to \o replace(SubSeq(str, Len(from) + 1, Len(str)), from, to)
       ELSE << Head(str) >> \o replace(Tail(str), from, to)

\* str::contains
contains(str, pat) ==
  \E i \in 1..(Len(str) - Len(pat) + 1) : SubSeq(str, i, i + Len(pat) - 1) = pat

\* the chars pushed to unescape (each stands for `\c`), in order
Unescape(input) ==
  LET idx == char_indices(input)
      pushes(i) == /\ input[i] = "\\"
                   /\ nth(input, idx[i] + 1).some
                   /\ ~is_meta_character(nth(input, idx[i] + 1).v)
                   /\ nth(input, idx[i] + 1).v # "d"
  IN [k \in 1..Cardinality({i \in 1..Len(input) : pushes(i)}) |->
        LET i == CHOOSE j \in 1..Len(input) :
                   /\ pushes(j)
                   /\ Cardinality({h \in 1..j : pushes(h)}) = k
        IN nth(input, idx[i] + 1).v]

\* the loop over unescape: one replace of the whole string per pushed item
RECURSIVE ReplaceEach(_, _)
ReplaceEach(str, unescape) ==
  IF unescape = << >> THEN str
  ELSE ReplaceEach(replace(str, << "\\", Head(unescape) >>, << Head(unescape) >>),
                   Tail(unescape))

format_regex(input) ==
  LET formatted_regex == ReplaceEach(input, Unescape(input))
  IN IF \E find \in {<< "?", "=" >>, << "?", "!" >>, << "?", "<", "=" >>, << "?", "<", "!" >>} :
          contains(formatted_regex, find)
     THEN None
     ELSE Some(replace(formatted_regex, << "?", "<" >>, << "?", "P", "<" >>))

\* ---- cat_operation
\* Type2::ParenthesizedType and Type2::UTF8ByteString; utf8 tells whether
\* std::str::from_utf8 accepts the bytes, value is then their text
ParenthesizedType(pt) == [t2 |-> "ParenthesizedType", pt |-> pt]
UTF8ByteString(value, utf8) == [t2 |-> "UTF8ByteString", value |-> value, utf8 |-> utf8]

\* the text and byte string literals among the type choices of every type rule
\* named ident, those of the rules its type names refer to included
RECURSIVE string_literals_from_ident(_, _, _)
string_literals_from_ident(cddl, ident, d) ==
  IF d > MaxDepth THEN [st |-> "Overflow"]
  ELSE LET tcs == TypeChoicesOf(cddl, ident)
       IN AppendAll([i \in 1..Len(tcs) |->
            CASE tcs[i].type2.t2 \in {"TextValue", "UTF8ByteString"} ->
                   [st |-> "Ok", vals |-> << tcs[i].type2 >>]
              [] tcs[i].type2.t2 = "Typename" ->
                   string_literals_from_ident(cddl, tcs[i].type2.ident, d + 1)
              [] OTHER -> [st |-> "Ok", vals |-> << >>]])

\* the controllers a Typename or ParenthesizedType controller stands for
Controllers(cddl, controller) ==
  IF controller.t2 = "Typename"
  THEN string_literals_from_ident(cddl, controller.ident, 0)
  ELSE LET tcs == SelectSeq(controller.pt, LAMBDA tc : tc.operator = NoOp)
       IN [st |-> "Ok", vals |-> [i \in 1..Len(tcs) |-> tcs[i].type2]]

\* Result<Vec<CATOperationResult>, String>: [st |-> "Ok", vals |-> the
\* literals] or [st |-> "Err"]; [st |-> "Overflow"] when the stack runs out.
\* The targets and controllers are text, UTF-8 byte strings, type names and
\* parenthesized types; base16 and base64 byte strings are not generated.
RECURSIVE cat_operation(_, _, _)
cat_operation(cddl, target, controller) ==
  CASE target.t2 = "TextValue" \/ (target.t2 = "UTF8ByteString" /\ target.utf8) ->
         (CASE controller.t2 = "TextValue" ->
                 [st |-> "Ok", vals |-> << target.value \o controller.value >>]
            [] controller.t2 = "UTF8ByteString" ->
                 IF controller.utf8
                 THEN [st |-> "Ok", vals |-> << target.value \o controller.value >>]
                 ELSE [st |-> "Err"]
            [] controller.t2 \in {"Typename", "ParenthesizedType"} ->
                 LET cs == Controllers(cddl, controller)
                 IN IF cs.st # "Ok" THEN [st |-> cs.st]
                    ELSE AppendAll([i \in 1..Len(cs.vals) |->
                                      cat_operation(cddl, target, cs.vals[i])])
            [] OTHER -> [st |-> "Err"])
    [] target.t2 = "UTF8ByteString" -> [st |-> "Err"]
    [] target.t2 = "Typename" ->
         LET ls == string_literals_from_ident(cddl, target.ident, 0)
         IN IF ls.st # "Ok" THEN [st |-> ls.st]
            ELSE IF ls.vals = << >> THEN [st |-> "Err"]
            ELSE cat_operation(cddl, ls.vals[1], controller)
    [] target.t2 = "ParenthesizedType" ->
         LET first == IF target.pt # << >> /\ target.pt[1].operator = NoOp
                      THEN cat_operation(cddl, target.pt[1].type2, controller)
                      ELSE [st |-> "Ok", vals |-> << >>]
         IN IF first.st # "Ok" THEN [st |-> first.st] ELSE [st |-> "Err"]
    [] OTHER -> [st |-> "Err"]

\* ---- entry_counts_from_group_choice
\* Option<&GroupRule>: the first group rule named ident that is not a group
\* choice alternate
group_rule_from_ident(cddl, ident) ==
  LET rs == {i \in 1..Len(cddl) : /\ cddl[i].r = "Group"
                                  /\ cddl[i].name = ident
                                  /\ ~cddl[i].is_group_choice_alternate}
  IN IF rs = {} THEN None ELSE Some(cddl[Min(rs)])

RECURSIVE SumSeq(_)
SumSeq(q) == IF q = << >> THEN 0 ELSE Head(q) + SumSeq(Tail(q))

\* the count of a nested call, as one summand
CountOf(r) == IF r.st = "Ok" THEN [st |-> "Ok", vals |-> << r.count >>] ELSE [st |-> r.st]

\* the mutant of SecondEntryOccurrence without the test idx == 1: the last
\* entry that has an occurrence sets it
LastEntryOccurrence(group_choice) ==
  LET os == {i \in 1..Len(group_choice) : group_choice[i].occur # NoOccur}
  IN IF os = {} THEN NoOccur ELSE group_choice[CHOOSE i \in os : \A j \in os : j <= i].occur

\* entry_occurrence: the occurrence of the entry at idx == 1, if it has one
SecondEntryOccurrence(group_choice) ==
  IF Len(group_choice) >= 2 THEN group_choice[2].occur ELSE NoOccur

\* [st |-> "Ok", count, entry_occurrence], or [st |-> "Overflow"] when the
\* stack runs out; d counts the group rule references on the stack
RECURSIVE entry_counts_from_group_choice(_, _, _)
entry_counts_from_group_choice(cddl, group_choice, d) ==
  IF d > MaxDepth THEN [st |-> "Overflow"]
  ELSE
  LET counts ==
        AppendAll([idx \in 1..Len(group_choice) |->
          LET ge == group_choice[idx]
          IN CASE ge.ge = "ValueMemberKey" -> [st |-> "Ok", vals |-> << 1 >>]
               [] ge.ge = "InlineGroup" ->
                    AppendAll([k \in 1..Len(ge.group) |->
                      CountOf(entry_counts_from_group_choice(cddl, ge.group[k], d))])
               [] OTHER ->
                    IF group_rule_from_ident(cddl, ge.name).some
                    THEN CountOf(entry_counts_from_group_choice(
                                   cddl, << group_rule_from_ident(cddl, ge.name).v.entry >>,
                                   d + 1))
                    ELSE [st |-> "Ok", vals |-> << 1 >>]])
  IN IF counts.st # "Ok" THEN [st |-> counts.st]
     ELSE [st |-> "Ok", count |-> SumSeq(counts.vals),
           entry_occurrence |-> SecondEntryOccurrence(group_choice)]

\* ------------------------------------------------------ generated inputs
\* every sequence over S of length lo..hi
SeqsOf(S, lo, hi) == UNION {[1..n -> S] : n \in lo..hi}

Ints == {JInt(i) : i \in -MaxNum..MaxNum}
Floats == {JFloat(h) : h \in {x \in -(2 * MaxNum + 1)..(2 * MaxNum + 1) : x % 2 = 1} \cup {0, 2}}
Numbers == Ints \cup Floats
NonNumbers == {JNull, JBool(TRUE), JStr("s")}

\* the values stored under the keys of a generated object
MemberValues == {JInt(1), JStr("s"), JStr("lit"), JNull}
Keys == {"k", "x"}
Objects == UNION {{JObj(o) : o \in [ks -> MemberValues]} : ks \in SUBSET Keys}

\* documents that type names of the generated types resolve in
\*   myint = int      mytext = tstr / "lit"      loop = loop
BaseDoc ==
  << TypeRule("root", FALSE, T1(Typename("any"))),
     TypeRule("myint", FALSE, T1(Typename("int"))),
     TypeRule("mytext", FALSE, << Type1(Typename("tstr")), Type1(TextValue("lit")) >>),
     TypeRule("loop", FALSE, T1(Typename("loop"))) >>

\* type choices of the generated types
ChoicePool ==
  { Type1(Typename("int")), Type1(Typename("tstr")), Type1(Typename("bool")),
    Type1(TextValue("lit")), Type1(IntValue(-1)), Type1(FloatValue(3)),
    Type1(Typename("mytext")), Type1(Typename("loop")), Type1(Typename("undefined")),
    Type1Op(UintValue(0), RangeOp(TRUE, UintValue(2))),
    Type1(MapT(<< << ValueMemberKey(NoOccur, Bareword("k"), T1(Typename("int"))) >> >>)) }
Types == SeqsOf(ChoicePool, 1, MaxChoices)
TypeValues == {JNull, JBool(TRUE), JStr("s"), JStr("lit"), JInt(-1), JInt(1), JFloat(3),
               JObj([x \in {"k"} |-> JInt(1)]), JObj([x \in {"k"} |-> JStr("s")])}

\* rules of the generated documents
RulePool ==
  { TypeRule("a", FALSE, T1(Typename("int"))),
    TypeRule("a", TRUE, T1(Typename("tstr"))),
    TypeRule("b", FALSE, T1(Typename("bool"))),
    TypeRule("b", TRUE, T1(Typename("null"))),
    GroupRule("g", FALSE, ValueMemberKey(NoOccur, Bareword("k"), T1(Typename("int")))) }
Docs == SeqsOf(RulePool, 0, MaxRules)
DocValues == {JNull, JBool(TRUE), JStr("s"), JInt(1)}

\* entries `k: T`, `"k" => T` and `"k" ^ => T` with every occurrence indicator
EntryKeys ==
  { Bareword("k"), KeyType1(Type1(TextValue("k")), FALSE), KeyType1(Type1(TextValue("k")), TRUE) }
EntryOccurs ==
  { NoOccur, Optional, ZeroOrMore, OneOrMore, Exact(Some(0), None), Exact(Some(1), None) }
EntryTypes ==
  { T1(Typename("int")), T1(Typename("tstr")), T1(TextValue("lit")), T1(Typename("myint")) }
KeyedEntries == {ValueMemberKey(o, mk, t) : o \in EntryOccurs, mk \in EntryKeys, t \in EntryTypes}

\* `* tstr => T` and `* text => T`
Wildcard(name, t) == ValueMemberKey(ZeroOrMore, KeyType1(Type1(Typename(name)), FALSE), t)
WildcardTypes == {T1(Typename("any")), T1(Typename("int"))}
GroupChoices ==
  UNION {   {<< e >>, << Wildcard("tstr", T1(Typename("any"))), e >>,
             << e, Wildcard("text", T1(Typename("any"))) >>}
       \cup {<< e, Wildcard("tstr", w) >> : w \in WildcardTypes}
         : e \in KeyedEntries }
\* the occurrence handed down by the enclosing context
CtxOccurs == {NoOccur, Optional, ZeroOrMore, OneOrMore}

\* range bounds: literals and rule names, and the documents the names resolve in
Literals ==
  {IntValue(i) : i \in -MaxLit..MaxLit} \cup {UintValue(u) : u \in 0..MaxLit}
    \cup {FloatValue(h) : h \in -(2 * MaxLit)..(2 * MaxLit)}
BoundNames == {Typename("lower"), Typename("upper"), Typename("undefined")}
Bounds == Literals \cup BoundNames
\*   lower = -1             upper = 1 / 3
\*   lower = 0              upper = 1 / other / 3     other = 0
\*   lower = 0.5            upper = 1                 upper /= 3
\*   lower = "x"            upper = upper
RangeDocs ==
  << << TypeRule("lower", FALSE, T1(IntValue(-1))),
        TypeRule("upper", FALSE, << Type1(UintValue(1)), Type1(UintValue(3)) >>) >>,
     << TypeRule("lower", FALSE, T1(UintValue(0))),
        TypeRule("upper", FALSE, << Type1(UintValue(1)), Type1(Typename("other")), Type1(UintValue(3)) >>),
        TypeRule("other", FALSE, T1(UintValue(0))) >>,
     << TypeRule("lower", FALSE, T1(FloatValue(1))),
        TypeRule("upper", FALSE, T1(FloatValue(2))),
        TypeRule("upper", TRUE, T1(FloatValue(6))) >>,
     << TypeRule("lower", FALSE, T1(TextValue("x"))),
        TypeRule("upper", FALSE, T1(Typename("upper"))) >> >>
RangeValues == Numbers \cup NonNumbers

\* ------------------------------------------------------------ the caller
VARIABLES
  pc,     \* "idle" before a call, "returned" after it
  fn,     \* the entry point that was called
  cddl,   \* the rule list (self.rules) of the call
  args,   \* the arguments of the call other than the JSON value
  value,  \* the JSON value of the call
  ret,    \* what the call returned
  out     \* the value carried by the result, for the calls that return one

vars == << pc, fn, cddl, args, value, ret, out >>

\* no value is carried
NoOut == [none |-> TRUE]

Init ==
  /\ pc = "idle"
  /\ fn = "none"
  /\ cddl = << >>
  /\ args = [none |-> TRUE]
  /\ value = JNull
  /\ ret = "none"
  /\ out = NoOut

CallOut(f, c, a, v, r, o) ==
  /\ pc' = "returned"
  /\ fn' = f
  /\ cddl' = c
  /\ args' = a
  /\ value' = v
  /\ ret' = r
  /\ out' = o

Call(f, c, a, v, r) == CallOut(f, c, a, v, r, NoOut)

\* CDDL::validate on a generated document
CallValidate ==
  /\ pc = "idle"
  /\ \E c \in Docs, v \in DocValues :
    Call("validate", c, [root |-> root_rule(c)], v, validate(c, v))

\* validate_type on a generated Type
CallValidateType ==
  /\ pc = "idle"
  /\ \E t \in Types, v \in TypeValues :
    Call("validate_type", BaseDoc, [t |-> t], v, validate_type(BaseDoc, t, NoOccur, v, 0))

\* validate_group_choice on a map group choice and a JSON object
CallValidateGroupChoice ==
  /\ pc = "idle"
  /\ \E gc \in GroupChoices, o \in {NoOccur, Optional}, v \in Objects :
    Call("validate_group_choice", BaseDoc, [gc |-> gc, occur |-> o], v,
         validate_group_choice(BaseDoc, gc, o, v, 0))

\* validate_group_entry on a keyed entry and a JSON object
CallValidateGroupEntry ==
  /\ pc = "idle"
  /\ \E ge \in KeyedEntries, w \in {None} \cup {Some(t) : t \in WildcardTypes},
     o \in CtxOccurs, v \in Objects :
    Call("validate_group_entry", BaseDoc, [ge |-> ge, wildcard |-> w, occur |-> o], v,
         validate_group_entry(BaseDoc, ge, FALSE, w, o, v, 0))

\* validate_range; a document is chosen only when a bound is a rule name
CallValidateRange ==
  /\ pc = "idle"
  /\ \E i \in 1..Len(RangeDocs), lower \in Bounds, upper \in Bounds,
     is_inclusive \in BOOLEAN, v \in RangeValues :
    /\ (lower \in Literals /\ upper \in Literals) => i = 1
    /\ Call("validate_range", RangeDocs[i],
            [lower |-> lower, upper |-> upper, is_inclusive |-> is_inclusive], v,
            validate_range(RangeDocs[i], lower, upper, is_inclusive, v))

\* entries of the groups behind `&`: barewords and a literal key over several
\* entry types, and an entry that is no ValueMemberKey
EnumEntries ==
  { ValueMemberKey(NoOccur, Bareword("red"), T1(TextValue("lit"))),
    ValueMemberKey(NoOccur, Bareword("k"), T1(Typename("tstr"))),
    ValueMemberKey(NoOccur, KeyType1(Type1(TextValue("k")), FALSE), T1(Typename("int"))),
    ValueMemberKey(NoOccur, Bareword("l"), T1(Typename("loop"))),
    TypeGroupname(NoOccur, "g") }
\* groups of one or two group choices of up to MaxChoices entries
EnumGroups == SeqsOf(SeqsOf(EnumEntries, 0, MaxChoices), 1, 2)
EnumValues == {JNull, JStr("s"), JStr("lit"), JInt(1), JFloat(3)}

\* validate_group_to_choice_enum on the group of `&( ... )`
CallValidateGroupToChoiceEnum ==
  /\ pc = "idle"
  /\ \E g \in EnumGroups, v \in EnumValues :
    Call("validate_group_to_choice_enum", BaseDoc, [g |-> g], v,
         validate_group_to_choice_enum(BaseDoc, g, NoOccur, v, 0))

\* positional array entries `city: tstr`, `n: int`, `"k" => "lit"`
PositionalEntries ==
  { ValueMemberKey(NoOccur, Bareword("city"), T1(Typename("tstr"))),
    ValueMemberKey(NoOccur, Bareword("n"), T1(Typename("int"))),
    ValueMemberKey(NoOccur, KeyType1(Type1(TextValue("k")), FALSE), T1(TextValue("lit"))) }
PositionalChoices == SeqsOf(PositionalEntries, 1, MaxChoices)
ArrayItemValues == {JStr("s"), JStr("lit"), JInt(1)}
Arrays == {JArr(a) : a \in SeqsOf(ArrayItemValues, 0, MaxChoices + 1)}

\* validate_group_choice on the group choice of an array type and a JSON array
CallValidateGroupChoiceArray ==
  /\ pc = "idle"
  /\ \E gc \in PositionalChoices, v \in Arrays :
    Call("validate_group_choice", BaseDoc, [gc |-> gc, occur |-> NoOccur], v,
         validate_group_choice(BaseDoc, gc, NoOccur, v, 0))

\* the document of the validate_type2 calls: BaseDoc and
\*   mybool = bool   n = uint   mynull = null   myobj = { k: int }
\*   myarr = [ n: int ]   grp = ( k: int )
Type2Doc ==
  BaseDoc \o
  << TypeRule("mybool", FALSE, T1(Typename("bool"))),
     TypeRule("n", FALSE, T1(Typename("uint"))),
     TypeRule("mynull", FALSE, T1(Typename("null"))),
     TypeRule("myobj", FALSE,
              T1(MapT(<< << ValueMemberKey(NoOccur, Bareword("k"), T1(Typename("int"))) >> >>))),
     TypeRule("myarr", FALSE,
              T1(ArrayT(<< << ValueMemberKey(NoOccur, Bareword("n"), T1(Typename("int"))) >> >>))),
     GroupRule("grp", FALSE, ValueMemberKey(NoOccur, Bareword("k"), T1(Typename("int")))) >>
Type2Names ==
  { Typename(id) : id \in {"bool", "uint", "tstr", "mybool", "n", "mynull", "mytext", "myint",
                           "myobj", "myarr", "grp", "loop", "undefined"} }
Type2s == Literals \cup Type2Names \cup {TextValue("lit"), TaggedData}
Type2Values ==
  Numbers \cup NonNumbers \cup
    {JStr("lit"), JBool(FALSE), JArr(<< JInt(1) >>), JObj([x \in {"k"} |-> JInt(1)])}

\* validate_type2 on a literal or a type name
CallValidateType2 ==
  /\ pc = "idle"
  /\ \E t2 \in Type2s, v \in Type2Values :
    Call("validate_type2", Type2Doc, [t2 |-> t2], v,
         validate_type2(Type2Doc, t2, NoOccur, v, 0))

\* the numeric identifiers of the prelude, and two names that are none
NumericIdents ==
  {"uint", "nint", "int", "number", "float", "float16", "float32", "float64",
   "float16-32", "float32-64", "integer", "unsigned"}
\* integers at the ends of i64 and u64
WideInts == {JInt(I64Max), JInt(I64Max + 1), JInt(U64Max), JInt(-I64Max - 1)}
NumericValues == Numbers \cup WideInts \cup NonNumbers

\* validate_numeric_data_type on a prelude identifier
CallValidateNumericDataType ==
  /\ pc = "idle"
  /\ \E id \in NumericIdents, v \in NumericValues :
    Call("validate_numeric_data_type", << >>, [ident |-> id], v,
         validate_numeric_data_type(id, v))

\* validate_rule_for_ident on a rule name of a generated document
CallValidateRuleForIdent ==
  /\ pc = "idle"
  /\ \E c \in Docs, id \in {"a", "b", "g", "undefined"}, v \in DocValues :
    Call("validate_rule_for_ident", c, [ident |-> id], v,
         validate_rule_for_ident(c, id, FALSE, NoOccur, v, 0))

\* the occurrences of an array, with every combination of bounds
OccurBounds == {None} \cup {Some(n) : n \in 0..2}
ArrayOccurs ==
  {NoOccur, Optional, ZeroOrMore, OneOrMore} \cup {Exact(l, u) : l, u \in OccurBounds}
CountOccurs ==
  {NoOccur, ZeroOrMore, OneOrMore, Exact(Some(1), Some(2)), Exact(None, None)}
EntryCountLists ==
  SeqsOf({EntryCount(c, eo) : c \in 1..2, eo \in CountOccurs}, 0, 2)

\* validator::validate_array_occurrence on an array of len elements
CallValidateArrayOccurrence ==
  /\ pc = "idle"
  /\ \E o \in ArrayOccurs, ecs \in {None} \cup {Some(l) : l \in EntryCountLists},
        len \in 0..MaxLen :
       LET r == validator_validate_array_occurrence(o, ecs, len)
       IN CallOut("validator::validate_array_occurrence", << >>,
                  [occurrence |-> o, entry_counts |-> ecs, len |-> len], JNull,
                  r.st, r)

\* rule lists over the names a and b, with cycles:  a = a,  a = b  b = a, ...
PredChoices ==
  { Type1(Typename("a")), Type1(Typename("b")), Type1(Typename("int")),
    Type1(Typename("tstr")), Type1(TextValue("lit")),
    Type1(MapT(<< << ValueMemberKey(NoOccur, Bareword("k"), T1(Typename("int"))) >> >>)) }
PredRules == {TypeRule(n, FALSE, t) : n \in {"a", "b"}, t \in SeqsOf(PredChoices, 1, 2)}
PredDocs == SeqsOf(PredRules, 0, 2)
PredIdents == {"a", "b", "int", "tstr", "text"}

\* is_ident_numeric_data_type of the validator module
CallIsIdentNumericDataType ==
  /\ pc = "idle"
  /\ \E c \in PredDocs, id \in PredIdents :
       Call("is_ident_numeric_data_type", c, [ident |-> id], JNull,
            is_ident_numeric_data_type(c, id))

\* is_ident_string_data_type of the validator module
CallIsIdentStringDataType ==
  /\ pc = "idle"
  /\ \E c \in PredDocs, id \in PredIdents :
       Call("is_ident_string_data_type", c, [ident |-> id], JNull,
            is_ident_string_data_type(c, id))

\* CDDL::is_type_numeric_data_type on a type name
CallIsTypeNumericDataType ==
  /\ pc = "idle"
  /\ \E c \in PredDocs, id \in PredIdents :
       Call("is_type_numeric_data_type", c, [ident |-> id], JNull,
            is_type_numeric_data_type(c, Typename(id), 0))

\* CDDL::is_type_string_data_type on a type name
CallIsTypeStringDataType ==
  /\ pc = "idle"
  /\ \E c \in PredDocs, id \in PredIdents :
       Call("is_type_string_data_type", c, [ident |-> id], JNull,
            is_type_string_data_type(c, Typename(id), 0))

\* unwrap_rule_from_ident on a rule name
CallUnwrapRuleFromIdent ==
  /\ pc = "idle"
  /\ \E c \in PredDocs, id \in {"a", "b"} :
       LET r == unwrap_rule_from_ident(c, id, 0)
       IN CallOut("unwrap_rule_from_ident", c, [ident |-> id], JNull,
                  IF r = StackOverflow THEN "Overflow" ELSE IF r.some THEN "Some" ELSE "None",
                  r)

\* the chars of the generated patterns: the backslash, a meta character, the
\* chars of the lookaround and capture constructs, `d`, a letter, a two-byte char
PatChars == {"\\", "?", "=", "!", "<", "d", "a", "é"}
Patterns == SeqsOf(PatChars, 0, MaxPat)

\* format_regex on a generated pattern
CallFormatRegex ==
  /\ pc = "idle"
  /\ \E input \in Patterns :
       LET r == format_regex(input)
       IN CallOut("format_regex", << >>, [input |-> input], JNull,
                  IF r.some THEN "Some" ELSE "None", r)

\* the rules the type names of .cat resolve in
\*   a = "x" / "y"    b = a / 'z'    n = 1    loop = loop
CatDoc ==
  << TypeRule("a", FALSE, << Type1(TextValue("x")), Type1(TextValue("y")) >>),
     TypeRule("b", FALSE, << Type1(Typename("a")), Type1(UTF8ByteString("z", TRUE)) >>),
     TypeRule("n", FALSE, T1(UintValue(1))),
     TypeRule("loop", FALSE, T1(Typename("loop"))) >>
CatLiterals ==
  {TextValue("t"), TextValue("tt"), UTF8ByteString("u", TRUE), UTF8ByteString("u", FALSE)}
CatNames == {Typename(n) : n \in {"a", "b", "n", "loop", "undefined"}}
CatChoices ==
  {Type1(l) : l \in CatLiterals \cup CatNames}
    \cup {Type1Op(TextValue("t"), CtlOp(".size", UintValue(1)))}
\* literals, type names, other types, and ( T1 / T2 ) over them
CatOperands ==
  CatLiterals \cup CatNames \cup {UintValue(1)}
    \cup {ParenthesizedType(pt) : pt \in SeqsOf(CatChoices, 1, 2)}

\* cat_operation on a target and a controller
CallCatOperation ==
  /\ pc = "idle"
  /\ \E target \in CatOperands, controller \in CatOperands :
       LET r == cat_operation(CatDoc, target, controller)
       IN CallOut("cat_operation", CatDoc, [target |-> target, controller |-> controller],
                  JNull, r.st, r)

\* the rules the group names of the counted group choices resolve in
\*   g = (k: int)   h = ((k: int, k: int))   p //= ((k: int, k: int))
\*   cyc = (cyc)    t = int
SlotEntry == ValueMemberKey(NoOccur, Bareword("k"), T1(Typename("int")))
CountDoc ==
  << GroupRule("g", FALSE, SlotEntry),
     GroupRule("h", FALSE, InlineGroup(NoOccur, << << SlotEntry, SlotEntry >> >>)),
     GroupRule("p", TRUE, InlineGroup(NoOccur, << << SlotEntry, SlotEntry >> >>)),
     GroupRule("cyc", FALSE, TypeGroupname(NoOccur, "cyc")),
     TypeRule("t", FALSE, T1(Typename("int"))) >>
CountedEntries ==
  { SlotEntry, ValueMemberKey(ZeroOrMore, NoKey, T1(Typename("int"))),
    TypeGroupname(NoOccur, "g"), TypeGroupname(OneOrMore, "h"), TypeGroupname(NoOccur, "p"),
    TypeGroupname(NoOccur, "cyc"), TypeGroupname(Optional, "t"),
    TypeGroupname(NoOccur, "undefined"),
    InlineGroup(Exact(Some(1), None), << << SlotEntry, TypeGroupname(NoOccur, "h") >> >>),
    InlineGroup(NoOccur, << << SlotEntry >>, << SlotEntry, SlotEntry >> >>),
    InlineGroup(NoOccur, << << >> >>) }
CountedChoices == SeqsOf(CountedEntries, 0, MaxEntries)

\* entry_counts_from_group_choice on a generated group choice
CallEntryCountsFromGroupChoice ==
  /\ pc = "idle"
  /\ \E gc \in CountedChoices :
       LET r == entry_counts_from_group_choice(CountDoc, gc, 0)
       IN CallOut("entry_counts_from_group_choice", CountDoc, [group_choice |-> gc],
                  JNull, r.st, r)

\* the rules the operands of the control operators resolve in
\*   myint = int    lits = 1 / 2    neg = -1
CtlDoc ==
  << TypeRule("myint", FALSE, T1(Typename("int"))),
     TypeRule("lits", FALSE, << Type1(UintValue(1)), Type1(UintValue(2)) >>),
     TypeRule("neg", FALSE, T1(IntValue(-1))) >>
CtlTargets == {Typename(n) : n \in {"uint", "int", "number", "float", "myint", "tstr"}}
CtlOperators == {".lt", ".le", ".gt", ".ge", ".eq"}
CtlControllers ==
  {IntValue(-1), UintValue(1), FloatValue(3), Typename("lits"), Typename("neg")}

\* validate_control_operator on a comparison of a target with a controller
CallValidateControlOperator ==
  /\ pc = "idle"
  /\ \E target \in CtlTargets, operator \in CtlOperators, controller \in CtlControllers,
        v \in Numbers \cup NonNumbers :
       Call("validate_control_operator", CtlDoc,
            [target |-> target, operator |-> operator, controller |-> controller], v,
            validate_control_operator(CtlDoc, target, operator, controller, v))

\* the caller drops the result and is ready for the next call
Return ==
  /\ pc = "returned"
  /\ pc' = "idle"
  /\ fn' = "none"
  /\ cddl' = << >>
  /\ args' = [none |-> TRUE]
  /\ value' = JNull
  /\ ret' = "none"
  /\ out' = NoOut

Next ==
  \/ CallValidate
  \/ CallValidateType
  \/ CallValidateGroupChoice
  \/ CallValidateGroupEntry
  \/ CallValidateRange
  \/ CallValidateGroupToChoiceEnum
  \/ CallValidateGroupChoiceArray
  \/ CallValidateType2
  \/ CallValidateNumericDataType
  \/ CallValidateRuleForIdent
  \/ CallValidateArrayOccurrence
  \/ CallIsIdentNumericDataType
  \/ CallIsIdentStringDataType
  \/ CallIsTypeNumericDataType
  \/ CallIsTypeStringDataType
  \/ CallUnwrapRuleFromIdent
  \/ CallFormatRegex
  \/ CallCatOperation
  \/ CallEntryCountsFromGroupChoice
  \/ CallValidateControlOperator
  \/ Return

Spec == Init /\ [][Next]_vars

TypeOK ==
  /\ pc \in {"idle", "returned"}
  /\ ret \in {"none", "Ok", "Err", "Target", "Syntax", "Occurrence", "MultiError", "Overflow",
             "Panic", "true", "false", "None", "Some"}

\* ================================================================ claims
Returned(f) == pc = "returned" /\ fn = f

\* ---- C1
\* what validate_type1 returns for each type choice of the Type of the call
ChoiceResults == [i \in 1..Len(args.t) |-> validate_type1(cddl, args.t[i], NoOccur, value, 0)]

\* C1: validate_type returns Ok if and only if validate_type1 returns Ok for at
\* least one type choice of the Type; it returns an error only when every type
\* choice failed.
C1_AlternationSound ==
  Returned("validate_type") =>
    /\ ret = "Ok" <=> \E i \in 1..Len(args.t) : ChoiceResults[i] = "Ok"
    /\ IsErr(ret) => \A i \in 1..Len(args.t) : IsErr(ChoiceResults[i])

\* ---- C2
FirstIndex(c, P(_)) ==
  LET is == {i \in 1..Len(c) : P(c[i])}
  IN IF is = {} THEN 0 ELSE Min(is)
IsPrimaryTypeRule(r) == r.r = "Type" /\ ~r.is_type_choice_alternate

\* C2 (as stated): the root of validate is the first type rule in document
\* order that is not a choice alternate; a type rule flagged
\* is_type_choice_alternate is never the root.
C2_RootIsFirstNonAlternate ==
  Returned("validate") =>
    /\ args.root = FirstIndex(cddl, IsPrimaryTypeRule)
    /\ args.root # 0 => ~cddl[args.root].is_type_choice_alternate

\* C2 (amended): the root of validate is the first type rule in document
\* order, whether or not it is flagged is_type_choice_alternate: every rule
\* before the root is a group rule, and the verdict is that of the root's Type.
C2_RootIsFirstTypeRule ==
  Returned("validate") =>
    /\ args.root \in 0..Len(cddl)
    /\ \A j \in 1..Len(cddl) : j < args.root \/ args.root = 0 => cddl[j].r = "Group"
    /\ args.root # 0 =>
         /\ cddl[args.root].r = "Type"
         /\ ret = validate_type(cddl, cddl[args.root].value, NoOccur, value, 0)

\* a document that starts with `a /= tstr` and also holds `a = int` accepted
\* a string, which only the alternate matches
C2_Witness ==
  /\ Returned("validate")
  /\ args.root = 1
  /\ cddl[1].is_type_choice_alternate
  /\ FirstIndex(cddl, IsPrimaryTypeRule) > 1
  /\ value = JStr("s")
  /\ ret = "Ok"

\* ---- C3
\* whether the value matches the type: what validate_type returns for it
Matches(t, v) == validate_type(cddl, t, NoOccur, v, 0)

IsTextKeyEntry(ge, key, cut) ==
  /\ ge.ge = "ValueMemberKey"
  /\ ge.member_key.mk = "Type1"
  /\ ge.member_key.t1.type2 = TextValue(key)
  /\ ge.member_key.is_cut = cut
IsBarewordEntry(ge, key) ==
  /\ ge.ge = "ValueMemberKey"
  /\ ge.member_key = Bareword(key)

\* the group choice of the call is a cut entry `"k" ^ => T` and `* tstr => any`
CutWithWildcardAny ==
  /\ Returned("validate_group_choice")
  /\ \E i \in 1..Len(args.gc) : IsTextKeyEntry(args.gc[i], "k", TRUE)
  /\ \E i \in 1..Len(args.gc) : args.gc[i] = Wildcard("tstr", T1(Typename("any")))
CutEntryType == args.gc[CHOOSE i \in 1..Len(args.gc) : IsTextKeyEntry(args.gc[i], "k", TRUE)].entry_type

\* C3: for a map group choice with a cut entry `"k" ^ => T` and the wildcard
\* `* tstr => any`, an object whose value at k does not match T is rejected by
\* validate_group_choice (no fallback to the wildcard, which would accept it),
\* and an object whose value at k matches T is accepted.
C3_CutCorrectness ==
  (CutWithWildcardAny /\ HasKey(value, "k")) =>
    /\ IsErr(Matches(CutEntryType, value.o["k"])) => IsErr(ret)
    /\ Matches(CutEntryType, value.o["k"]) = "Ok" => ret = "Ok"

\* `"k" ^ => int, * tstr => any` rejected an object whose k is not an int
C3_Witness ==
  /\ CutWithWildcardAny
  /\ CutEntryType = T1(Typename("int"))
  /\ HasKey(value, "k")
  /\ IsErr(Matches(CutEntryType, value.o["k"]))
  /\ Matches(T1(Typename("any")), value.o["k"]) = "Ok"
  /\ IsErr(ret)

\* ---- C4
\* C4: for a non-cut entry `"k" => T` and a wildcard entry `* tstr => W`, when
\* the object has key k and its value fails T, validate_group_entry accepts the
\* entry if and only if the value matches W, whatever the entry type T is.
C4_NonCutFallback ==
  ( /\ Returned("validate_group_entry")
    /\ IsTextKeyEntry(args.ge, "k", FALSE)
    /\ args.wildcard.some
    /\ HasKey(value, "k")
    /\ IsErr(Matches(args.ge.entry_type, value.o["k"])) ) =>
    (ret = "Ok" <=> Matches(args.wildcard.v, value.o["k"]) = "Ok")

\* ---- C5
\* a wildcard entry as the specification defines it: `* tstr => T` or `* text => T`
IsDeclaredWildcard(ge) ==
  /\ ge.ge = "ValueMemberKey"
  /\ ge.occur = ZeroOrMore
  /\ ge.member_key.mk = "Type1"
  /\ ~ge.member_key.is_cut
  /\ ge.member_key.t1.type2 \in {Typename("tstr"), Typename("text")}
\* the keys the declared entries of a group choice name
DeclaredKeys(gc) ==
  {key \in Keys : \E i \in 1..Len(gc) :
     IsBarewordEntry(gc[i], key) \/ IsTextKeyEntry(gc[i], key, TRUE) \/ IsTextKeyEntry(gc[i], key, FALSE)}
LeftoverKeys == DOMAIN value.o \ DeclaredKeys(args.gc)

\* C5: in a map group choice without a wildcard entry, every object key that no
\* declared entry matches makes validate_group_choice fail; with a wildcard
\* entry, the value of every such key must match the wildcard entry type.
C5_UnexpectedKeys ==
  Returned("validate_group_choice") =>
    LET ws == {i \in 1..Len(args.gc) : IsDeclaredWildcard(args.gc[i])}
    IN /\ (ws = {} /\ LeftoverKeys # {}) => IsErr(ret)
       /\ (ws # {} /\ ret = "Ok") =>
            \A key \in LeftoverKeys : Matches(args.gc[Min(ws)].entry_type, value.o[key]) = "Ok"

\* ---- C6
\* the absence policy of the specification, by the occurrence of the entry
SkippedWhenAbsent(occur) == occur.o \in {"Optional", "ZeroOrMore"}
MissingWhenAbsent(occur) ==
  \/ occur.o \in {"None", "OneOrMore"}
  \/ occur.o = "Exact" /\ occur.lower.some /\ occur.lower.v > 0

\* C6: for a bareword entry `k: T` whose key is absent from the object,
\* validate_group_entry skips the entry (Ok) when the entry's own occurrence is
\* `?` or `*`, and returns an error when it is `+`, absent, or exact with a
\* lower bound > 0; the occurrence of the enclosing context plays no role.
C6_BarewordAbsence ==
  (Returned("validate_group_entry") /\ IsBarewordEntry(args.ge, "k") /\ ~HasKey(value, "k")) =>
    /\ SkippedWhenAbsent(args.ge.occur) => ret = "Ok"
    /\ MissingWhenAbsent(args.ge.occur) => IsErr(ret)

\* ---- C7
\* C7: for an entry with a text literal key (`"k" => T`, cut or not) whose key
\* is absent from the object, the bareword absence policy applies: the entry is
\* skipped when its occurrence is `?` or `*` and is an error otherwise.
C7_LiteralKeyAbsence ==
  ( /\ Returned("validate_group_entry")
    /\ (IsTextKeyEntry(args.ge, "k", TRUE) \/ IsTextKeyEntry(args.ge, "k", FALSE))
    /\ ~HasKey(value, "k") ) =>
    /\ SkippedWhenAbsent(args.ge.occur) => ret = "Ok"
    /\ MissingWhenAbsent(args.ge.occur) => IsErr(ret)

\* ---- C8
\* the numeric value of a literal bound, doubled like the x2 of a JSON number
LitX2(t2) == IF t2.t2 = "FloatValue" THEN t2.x2 ELSE 2 * t2.value
\* literal bounds of one kind: both IntValue, both UintValue or both FloatValue
SameDomainLiterals(l, u) == l \in Literals /\ u \in Literals /\ l.t2 = u.t2
\* the JSON number is of the domain of the bounds: an integer for IntValue
\* bounds, a non-negative integer for UintValue bounds, any number for
\* FloatValue bounds
InDomain(l, v) ==
  CASE l.t2 = "IntValue" -> v.n # "Float"
    [] l.t2 = "UintValue" -> v.n = "PosInt"
    [] OTHER -> TRUE

OrderedRangeCall ==
  /\ Returned("validate_range")
  /\ SameDomainLiterals(args.lower, args.upper)
  /\ LitX2(args.lower) <= LitX2(args.upper)
  /\ value.k = "Number"

C9_EmptyRange ==
  ( /\ Returned("validate_range")
    /\ args.lower \in Literals /\ args.upper \in Literals
    /\ LitX2(args.lower) > LitX2(args.upper) ) =>
    IsErr(ret)

\* a number lying between the swapped bounds of its own domain was rejected
C9_Witness ==
  /\ Returned("validate_range")
  /\ SameDomainLiterals(args.lower, args.upper)
  /\ LitX2(args.lower) > LitX2(args.upper)
  /\ value.k = "Number"
  /\ InDomain(args.lower, value)
  /\ LitX2(args.upper) <= value.x2 /\ value.x2 <= LitX2(args.lower)
  /\ IsErr(ret)

\* ---- C10
\* every numeric literal type choice of the rules named ident, with those
\* reached through type choices that are rule names (seen: names on the way)
RECURSIVE NumericLiteralsOf(_, _, _)
NumericLiteralsOf(c, ident, seen) ==
  LET tcs == TypeChoicesOf(c, ident)
      own == {tcs[i].type2 : i \in {j \in 1..Len(tcs) : IsNumericLiteral(tcs[j].type2)}}
      refs == {tcs[i].type2.ident : i \in {j \in 1..Len(tcs) : tcs[j].type2.t2 = "Typename"}}
  IN own \cup UNION {NumericLiteralsOf(c, id, seen \cup {ident}) : id \in refs \ (seen \cup {ident})}
\* the literals a bound stands for
Candidates(c, bound) ==
  IF bound.t2 = "Typename" THEN NumericLiteralsOf(c, bound.ident, {}) ELSE {bound}

\* C10: when a range bound is a rule name, validate_range succeeds if and only
\* if the value lies in the range formed with at least one numeric literal type
\* choice of the referenced rule, the candidates being all numeric literal
\* choices of the rule including those reached through choices that are
\* themselves rule names.
C10_RangeThroughRules ==
  ( /\ Returned("validate_range")
    /\ (args.lower \in BoundNames \/ args.upper \in BoundNames) ) =>
    ( ret = "Ok" <=>
        \E l \in Candidates(cddl, args.lower), u \in Candidates(cddl, args.upper) :
          validate_range(cddl, l, u, args.is_inclusive, value) = "Ok" )

\* ---- C11
\* the ValueMemberKey entries of every group choice of the group
EnumEntryTypes(g) ==
  UNION { {g[i][j].entry_type : j \in {j \in 1..Len(g[i]) : g[i][j].ge = "ValueMemberKey"}}
            : i \in 1..Len(g) }

\* C11: validate_group_to_choice_enum returns Ok if and only if the value
\* matches the entry type of at least one ValueMemberKey entry of at least one
\* group choice, whatever the member keys are; a value that matches none of
\* the entry types is rejected with an error.
C11_GroupToChoiceEnum ==
  Returned("validate_group_to_choice_enum") =>
    /\ ret = "Ok" <=> \E t \in EnumEntryTypes(args.g) : Matches(t, value) = "Ok"
    /\ (\A t \in EnumEntryTypes(args.g) : Matches(t, value) # "Ok") => IsErr(ret)

\* ---- C12
\* the group with the entry appended to its group choice i
AppendEntry(g, i, e) == [g EXCEPT ![i] = Append(g[i], e)]

\* C12: when validate_group_to_choice_enum accepts the value for a group, it
\* also accepts it for the group with one more ValueMemberKey entry appended
\* to any of its group choices.
C12_EnumMonotone ==
  Returned("validate_group_to_choice_enum") /\ ret = "Ok" =>
    \A i \in 1..Len(args.g) :
      \A e \in {x \in EnumEntries : x.ge = "ValueMemberKey"} :
        validate_group_to_choice_enum(cddl, AppendEntry(args.g, i, e), NoOccur, value, 0) = "Ok"


\* ---- C13
\* C13: for a group choice of n ValueMemberKey entries without occurrence
\* indicators, validate_group_choice accepts a JSON array only if the array has
\* exactly n elements and the element at each index matches the entry type at
\* that index; shorter arrays (the empty array too) and longer ones are
\* rejected.
C13_PositionalArrays ==
  Returned("validate_group_choice") /\ value.k = "Array" /\ ret = "Ok" =>
    /\ Len(value.a) = Len(args.gc)
    /\ \A i \in 1..Len(args.gc) : Matches(args.gc[i].entry_type, value.a[i]) = "Ok"


\* ---- C14
\* C14: validate_type2 with an IntValue, UintValue or FloatValue literal
\* accepts a JSON number if and only if the number equals the literal, for all
\* three kinds of literal, and rejects every JSON value that is no number.
C14_NumericLiteralEquality ==
  Returned("validate_type2") /\ args.t2 \in Literals =>
    /\ value.k = "Number" => (ret = "Ok" <=> value.x2 = LitX2(args.t2))
    /\ value.k # "Number" => IsErr(ret)

\* ---- C17
\* the call names a user-defined type rule: no prelude identifier, and the
\* first rule of that name is a type rule
NamesUserTypeRule ==
  /\ Returned("validate_type2")
  /\ args.t2.t2 = "Typename"
  /\ ~is_type_json_prelude(args.t2.ident)
  /\ RulesNamed(cddl, args.t2.ident) # {}
  /\ cddl[Min(RulesNamed(cddl, args.t2.ident))].r = "Type"

\* accepted, rejected with an error of whatever kind, or aborted
Verdict(r) == IF IsErr(r) THEN "Err" ELSE r

\* C17: for a Typename that is no prelude type and names a user-defined type
\* rule, validate_type2 returns what matching the value against the rule's
\* Type returns, for every kind of JSON value.
C17_UserRuleResolution ==
  NamesUserTypeRule =>
    Verdict(ret) =
      Verdict(validate_type(cddl, cddl[Min(RulesNamed(cddl, args.t2.ident))].value,
                            NoOccur, value, 0))


\* ---- C15
\* a JSON number of the integer kind (no fraction, no exponent)
IsInteger(v) == v.k = "Number" /\ v.n # "Float"

\* C15: validate_numeric_data_type accepts a JSON number for `uint` iff it is
\* a non-negative integer, for `nint` iff it is a strictly negative integer,
\* for `int` iff it is an integer, and for `number` always; a JSON value that
\* is no number is rejected for these identifiers.
C15_IntegerPreludeDomains ==
  Returned("validate_numeric_data_type") /\ args.ident \in {"uint", "nint", "int", "number"} =>
    /\ value.k = "Number" =>
         (ret = "Ok" <=>
            CASE args.ident = "uint" -> IsInteger(value) /\ value.x2 >= 0
              [] args.ident = "nint" -> IsInteger(value) /\ value.x2 < 0
              [] args.ident = "int" -> IsInteger(value)
              [] OTHER -> TRUE)
    /\ value.k # "Number" => IsErr(ret)

\* ---- C16
FloatFamily == {"float", "float16", "float32", "float64", "float16-32", "float32-64"}

\* C16: for every identifier of the float family validate_numeric_data_type
\* accepts every JSON float and every JSON integer (all integers of the model
\* are representable as a float).
C16_FloatFamily ==
  Returned("validate_numeric_data_type") /\ args.ident \in FloatFamily /\ value.k = "Number" =>
    ret = "Ok"


\* ---- C18
\* validator::type_choice_alternates_from_ident: the Type of every type rule
\* of that name, the primary rule and its alternates, in document order
type_choice_alternates_from_ident(c, ident) ==
  LET trs == SelectSeq(c, LAMBDA r : r.r = "Type" /\ r.name = ident)
  IN [i \in 1..Len(trs) |-> trs[i].value]

\* C18: when several type rules share a name, validating a value against the
\* name succeeds if the value matches the primary rule or any alternate:
\* validate_rule_for_ident does not stop at a first same-named rule that
\* rejects the value.
C18_AlternatesExtend ==
  Returned("validate_rule_for_ident") =>
    LET ts == type_choice_alternates_from_ident(cddl, args.ident)
    IN (\E i \in 1..Len(ts) : Matches(ts[i], value) = "Ok") => ret = "Ok"


\* ---- C19
\* C19: validation against a schema with self-referential rules terminates
\* with a result: no call expands rule references until the stack is
\* exhausted.
C19_BoundedExpansion == pc = "returned" => ret # "Overflow"

\* ---- C20
\* a float literal as lower bound and an integer literal as upper bound
MixedDomainRangeCall ==
  /\ Returned("validate_range")
  /\ args.lower.t2 = "FloatValue"
  /\ args.upper.t2 \in {"IntValue", "UintValue"}

\* C20: validate_range with a float literal lower bound and an integer literal
\* upper bound returns an error for every JSON value, also for numbers that
\* lie between the two bounds.
C20_MixedDomainRange == MixedDomainRangeCall => IsErr(ret)

\* 0.5...2 (and 0.5..2) rejected the integer 1, which lies between the bounds
C20_Witness ==
  /\ MixedDomainRangeCall
  /\ args.lower = FloatValue(1)
  /\ args.upper = UintValue(2)
  /\ value = JInt(1)
  /\ ret = "Syntax"

\* ---- C21
\* the pair (iterate each element, allow empty array) of the occurrence table
OccurrenceTable(occurrence) ==
  CASE occurrence.o = "None" -> << FALSE, FALSE >>
    [] occurrence.o = "Optional" -> << FALSE, TRUE >>
    [] occurrence.o = "ZeroOrMore" -> << TRUE, TRUE >>
    [] occurrence.o = "OneOrMore" -> << TRUE, FALSE >>
    [] OTHER -> << TRUE, occurrence.lower.some /\ occurrence.lower.v = 0 >>

\* C21: whenever validate_array_occurrence of the validator module returns Ok,
\* it returns the pair (iterate each element, allow empty array) of the
\* occurrence table: absent (false, false), `?` (false, true), `*` (true, true),
\* `+` (true, false), `{l,u}` (true, l = 0).
C21_OccurrenceTable ==
  Returned("validator::validate_array_occurrence") /\ ret = "Ok" =>
    << out.iter_items, out.allow_empty_array >> = OccurrenceTable(args.occurrence)

\* ---- C22
\* the array length violates the occurrence indicator
ViolatesOccurrence(occurrence, len) ==
  CASE occurrence.o = "Optional" -> len > 1
    [] occurrence.o = "OneOrMore" -> len = 0
    [] occurrence.o = "Exact" ->
         \/ occurrence.lower.some /\ len < occurrence.lower.v
         \/ occurrence.upper.some /\ len > occurrence.upper.v
    [] OTHER -> FALSE

\* C22: with an occurrence indicator, validate_array_occurrence of the validator
\* module returns an error if and only if the array length violates the
\* occurrence: `?` iff length > 1, `+` iff length = 0, `{l,u}` iff length < l or
\* length > u (a missing bound does not constrain), `*` never.
C22_OccurrenceErrors ==
  Returned("validator::validate_array_occurrence") /\ args.occurrence.o # "None" =>
    (ret = "Err" <=> ViolatesOccurrence(args.occurrence, args.len))

\* `{1,2}` on an array of three elements, with entry counts that admit three
C22_Witness ==
  /\ Returned("validator::validate_array_occurrence")
  /\ args.occurrence = Exact(Some(1), Some(2))
  /\ args.entry_counts = Some(<< EntryCount(1, ZeroOrMore) >>)
  /\ args.len = 3
  /\ ret = "Err"

\* ---- C23
\* a call without occurrence indicator and with a list of entry counts
CountedCall ==
  /\ Returned("validator::validate_array_occurrence")
  /\ args.occurrence.o = "None"
  /\ args.entry_counts.some

\* C23 as stated: without occurrence indicator and with a list of entry counts,
\* validate_array_occurrence returns Ok if and only if the array is non-empty
\* and its length equals the count of at least one entry count.
C23_EntryCountsAsStated ==
  CountedCall =>
    (ret = "Ok" <=>
       /\ args.len > 0
       /\ \E i \in 1..Len(args.entry_counts.v) : args.entry_counts.v[i].count = args.len)

\* the entry count admits an array of n elements: by its count, or by its
\* entry occurrence (`*` and `?` admit every length, `+` every length above 0,
\* `{l,u}` with at least one bound the lengths within the bounds it has)
Admits(ec, n) ==
  \/ n = ec.count
  \/ ec.entry_occurrence.o \in {"ZeroOrMore", "Optional"}
  \/ ec.entry_occurrence.o = "OneOrMore" /\ n > 0
  \/ /\ ec.entry_occurrence.o = "Exact"
     /\ ec.entry_occurrence.lower.some \/ ec.entry_occurrence.upper.some
     /\ ec.entry_occurrence.lower.some => n >= ec.entry_occurrence.lower.v
     /\ ec.entry_occurrence.upper.some => n <= ec.entry_occurrence.upper.v

\* C23 as amended: without occurrence indicator and with a list of entry counts,
\* validate_array_occurrence returns Ok if and only if the array is non-empty
\* and either the list is empty or at least one entry count admits the length,
\* by its count or by its entry occurrence.
C23_EntryCounts ==
  CountedCall =>
    (ret = "Ok" <=>
       /\ args.len > 0
       /\ \/ args.entry_counts.v = << >>
          \/ \E i \in 1..Len(args.entry_counts.v) : Admits(args.entry_counts.v[i], args.len))

\* three elements against the counts 1 and 2, the second with the occurrence `*`
C23_Witness ==
  /\ CountedCall
  /\ args.entry_counts.v = << EntryCount(1, NoOccur), EntryCount(2, ZeroOrMore) >>
  /\ args.len = 3
  /\ ret = "Ok"
  /\ out.iter_items = FALSE

\* ---- C24
\* the prelude identifiers of the classes
NumericPrelude ==
  {"uint", "nint", "int", "integer", "number", "float", "float16", "float32", "float64",
   "float16-32", "float32-64", "unsigned"}
TextPrelude == {"tstr", "text"}

\* ident is of the class, or some type choice of a same-named type rule is a
\* name that resolves to the class; seen holds the identifiers already visited
RECURSIVE Resolves(_, _, _, _)
Resolves(class, c, ident, seen) ==
  \/ ident \in class
  \/ /\ ident \notin seen
     /\ LET tcs == TypeChoicesOf(c, ident)
        IN \E i \in 1..Len(tcs) :
             /\ tcs[i].type2.t2 = "Typename"
             /\ Resolves(class, c, tcs[i].type2.ident, seen \cup {ident})

PredicateClass ==
  IF fn \in {"is_ident_numeric_data_type", "is_type_numeric_data_type"}
  THEN NumericPrelude ELSE TextPrelude

\* C24: the prelude predicates terminate on every rule set, cyclic ones
\* included, and return true if and only if the identifier is a prelude
\* identifier of the class or resolves to one through the type choices of the
\* same-named type rules; on a cycle that reaches none they return false.
C24_PreludePredicates ==
  /\ pc = "returned" /\ fn = "unwrap_rule_from_ident" => ret # "Overflow"
  /\ pc = "returned"
     /\ fn \in {"is_ident_numeric_data_type", "is_ident_string_data_type",
                "is_type_numeric_data_type", "is_type_string_data_type"} =>
       /\ ret \in {"true", "false"}
       /\ ret = "true" <=> Resolves(PredicateClass, cddl, args.ident, {})

\* ---- C25
\* the entry type of the first wildcard entry as the specification defines it
DeclaredWildcard(gc) ==
  LET ws == {i \in 1..Len(gc) : IsDeclaredWildcard(gc[i])}
  IN IF ws = {} THEN None ELSE Some(gc[Min(ws)].entry_type)

\* gc with every member key `text` of a wildcard entry written `tstr`
TextAsTstr(gc) ==
  [i \in 1..Len(gc) |->
     IF IsDeclaredWildcard(gc[i]) THEN Wildcard("tstr", gc[i].entry_type) ELSE gc[i]]

\* C25: validate_group_choice takes as the wildcard entry the first
\* ValueMemberKey whose occurrence is `*` and whose member key is a non-cut
\* Type1 naming `tstr` or `text`; a group choice with `* text => T` is
\* validated exactly like the one with `* tstr => T` in its place.
C25_WildcardIdentification ==
  Returned("validate_group_choice") /\ value.k = "Object" =>
    /\ wildcard_entry(args.gc) = DeclaredWildcard(args.gc)
    /\ ret = validate_group_choice(cddl, TextAsTstr(args.gc), args.occur, value, 0)

\* ---- C26
\* str without every backslash that precedes a char that is neither a meta
\* character nor `d`
RECURSIVE Unescaped(_)
Unescaped(str) ==
  IF str = << >> THEN << >>
  ELSE IF /\ Head(str) = "\\"
          /\ Len(str) > 1
          /\ ~is_meta_character(str[2])
          /\ str[2] # "d"
       THEN Unescaped(Tail(str))
       ELSE << Head(str) >> \o Unescaped(Tail(str))

\* str holds `?=`, `?!`, `?<=` or `?<!`
HasLookaround(str) ==
  \E i \in 1..Len(str) :
    /\ str[i] = "?"
    /\ \/ i < Len(str) /\ str[i + 1] \in {"=", "!"}
       \/ i + 1 < Len(str) /\ str[i + 1] = "<" /\ str[i + 2] \in {"=", "!"}

\* str with every `?<` written `?P<`
RECURSIVE NamedCaptures(_)
NamedCaptures(str) ==
  IF str = << >> THEN << >>
  ELSE IF Len(str) > 1 /\ str[1] = "?" /\ str[2] = "<"
       THEN << "?", "P", "<" >> \o NamedCaptures(SubSeq(str, 3, Len(str)))
       ELSE << Head(str) >> \o NamedCaptures(Tail(str))

\* C26: format_regex returns None if and only if the pattern, after backslash
\* removal, contains `?=`, `?!`, `?<=` or `?<!`; otherwise it returns the input
\* without the backslashes that precede a char that is neither a meta character
\* nor `d`, with every `?<` rewritten to `?P<` and every other char unchanged
\* and in order.
C26_FormatRegex ==
  Returned("format_regex") =>
    IF HasLookaround(Unescaped(args.input)) THEN out = None
    ELSE out = Some(NamedCaptures(Unescaped(args.input)))

\* ---- C27
\* C27: cat_operation with a parenthesized target uses the first type choice of
\* the target only: when that choice is a text literal without operator and
\* the controller is a text literal, the call succeeds and yields exactly one
\* literal, the first target literal followed by the controller.
C27_CatParenthesizedTarget ==
  ( /\ Returned("cat_operation")
    /\ args.target.t2 = "ParenthesizedType"
    /\ args.target.pt[1].operator = NoOp
    /\ args.target.pt[1].type2.t2 = "TextValue"
    /\ args.controller.t2 = "TextValue" ) =>
    /\ ret = "Ok"
    /\ out.vals = << args.target.pt[1].type2.value \o args.controller.value >>

\* ---- C28
\* the first group rule named ident: every group rule when alternates is
\* TRUE, only those that are no group choice alternate otherwise
NamedGroupRule(c, ident, alternates) ==
  LET rs == {i \in 1..Len(c) :
               /\ c[i].r = "Group"
               /\ c[i].name = ident
               /\ alternates \/ ~c[i].is_group_choice_alternate}
  IN IF rs = {} THEN None ELSE Some(c[Min(rs)])

\* the positional slots of a group choice: 1 per ValueMemberKey, 1 per
\* TypeGroupname that names no group rule, the slots of the entry of the rule
\* for one that does, the slots of all the group choices of an InlineGroup;
\* fuel bounds the chain of rule references that is followed
RECURSIVE Slots(_, _, _, _)
Slots(c, gc, alternates, fuel) ==
  SumSeq([i \in 1..Len(gc) |->
    CASE gc[i].ge = "ValueMemberKey" -> 1
      [] gc[i].ge = "InlineGroup" ->
           SumSeq([k \in 1..Len(gc[i].group) |-> Slots(c, gc[i].group[k], alternates, fuel)])
      [] OTHER ->
           IF ~NamedGroupRule(c, gc[i].name, alternates).some THEN 1
           ELSE IF fuel = 0 THEN 0
           ELSE Slots(c, << NamedGroupRule(c, gc[i].name, alternates).v.entry >>,
                      alternates, fuel - 1)])

\* the occurrence of the entry at index 1, none without such an entry
OccurrenceAtIndexOne(gc) == IF Len(gc) < 2 THEN NoOccur ELSE gc[2].occur

NumericTarget ==
  args.target.t2 = "Typename" /\ Resolves(NumericPrelude, cddl, args.target.ident, {})

\* the comparison of the operator holds between the value and literal lit
Compares(operator, v, lit) ==
  /\ v.k = "Number"
  /\ CASE operator = ".lt" -> v.x2 < LitX2(lit)
       [] operator = ".le" -> v.x2 <= LitX2(lit)
       [] operator = ".gt" -> v.x2 > LitX2(lit)
       [] operator = ".ge" -> v.x2 >= LitX2(lit)
       [] OTHER -> v.x2 = LitX2(lit)

\* C29: for `.lt`, `.le`, `.gt`, `.ge` and numeric `.eq`, with a target that
\* resolves to a numeric prelude type and a controller that is a numeric
\* literal or a rule name resolving to numeric literals,
\* validate_control_operator returns no syntax error and succeeds if and only
\* if the comparison holds for at least one controller literal; a syntax error
\* is returned only when the target is not numeric.
C29_NumericComparisons ==
  Returned("validate_control_operator") /\ args.operator \in CtlOperators =>
    /\ ( /\ NumericTarget
         /\ Candidates(cddl, args.controller) # {}
         /\ \A lit \in Candidates(cddl, args.controller) : IsNumericLiteral(lit) ) =>
         /\ ret # "Syntax"
         /\ ret = "Ok" <=>
              \E lit \in Candidates(cddl, args.controller) : Compares(args.operator, value, lit)
    /\ ret = "Syntax" => ~NumericTarget

\* ---- C30
\* C30: when the rule list holds no type rule (it is empty or holds group rules
\* only), validate returns Ok for every JSON value.
C30_VacuousSuccess ==
  Returned("validate") /\ (\A i \in 1..Len(cddl) : cddl[i].r # "Type") => ret = "Ok"

\* the rule list `g = (k: int)` alone, with the JSON string "s"
C30_Witness ==
  /\ Returned("validate")
  /\ Len(cddl) = 1
  /\ cddl[1].r = "Group"
  /\ value = JStr("s")
  /\ ret = "Ok"

====
